---- MODULE Spec2Model ----
(***************************************************************************)
(* GOJI: expense tracking and payroll.  A model of the analytics service   *)
(* (lib/aiService), of the payroll calculator and the payroll page, and of *)
(* the expenses page, written from the TypeScript sources.                 *)
(*                                                                         *)
(* Numbers.  JavaScript numbers are IEEE doubles.  The model computes over *)
(* exact rationals, kept as integers over a stated denominator; rounding   *)
(* of the doubles themselves is not modelled.  NaN is modelled where the   *)
(* code can produce it (a division 0/0).                                   *)
(* Text.  A string is a sequence of one-character strings.                 *)
(* Dates.  A date is a month ordinal (12 * year + month - 1); the code     *)
(* only ever reads the year and the month of an expense date.              *)
(***************************************************************************)
EXTENDS Integers, Sequences, FiniteSets, TLC

VARIABLES
    pc,         \* position of the call under study: "ready" or "done"
    args,       \* the arguments of the call
    ret,        \* the value the call returned
    now,        \* the current date, as new Date() reads it (month ordinal)
    clock,      \* the current time, as Date.now() reads it
    storedPayroll,      \* localStorage: the list under goji_payroll
    payrolls,           \* PayrollPage: the payrolls state
    employees,          \* PayrollPage: the employees state
    payrollForm,        \* PayrollPage: the formData state
    selectedEmployee,   \* PayrollPage: the selectedEmployee state
    showPayrollModal,   \* PayrollPage: the showAddModal state
    storedExpenses,     \* localStorage: the list under goji_expenses
    pageExpenses,       \* ExpensesPage: the expenses state
    expenseForm,        \* ExpensesPage: the formData state
    showExpenseModal,   \* ExpensesPage: the showAddModal state
    selectedFile,       \* ExpensesPage: the selectedFile state
    ocrProcessing,      \* ExpensesPage: the ocrProcessing state
    ocrData,            \* ExpensesPage: the ocrData state
    previewUrl,         \* ExpensesPage: the previewUrl state
    showOCRModal,       \* ExpensesPage: the showOCRModal state
    extraction,         \* the extractReceiptData calls that have not resolved
    storedKeys,         \* localStorage: the data keys that hold a value
    storedEmployees,    \* localStorage: the list under goji_employees
    storedBudgets,      \* localStorage: the list under goji_budgets
    storedRevenue,      \* localStorage: the list under goji_revenue
    storedSettings,     \* localStorage: the value under goji_company_settings
    employeeList,       \* EmployeesPage: the employees state
    storedUsers,        \* localStorage: the list under goji_all_users
    storedToken,        \* localStorage: the value under goji_auth_token
    storedCurrentUser,  \* localStorage: the value under goji_current_user
    storedOnboarding,   \* localStorage: goji_onboarding_complete is 'true'
    user,               \* AuthProvider: the user state
    isOnboarded,        \* AuthProvider: the isOnboarded state
    calls,              \* the signup and login calls that have not resolved
    completedBy         \* history: the ids of the users who completed onboarding

coreVars == <<pc, args, ret, now>>
payVars == <<clock, storedPayroll, payrolls, employees, payrollForm, selectedEmployee,
             showPayrollModal>>
expVars == <<storedExpenses, pageExpenses, expenseForm, showExpenseModal>>
ocrVars == <<selectedFile, ocrProcessing, ocrData, previewUrl, showOCRModal, extraction>>
setupVars == <<storedKeys, storedEmployees, storedBudgets, storedRevenue, storedSettings,
               employeeList>>
authVars == <<storedUsers, storedToken, storedCurrentUser, storedOnboarding, user,
              isOnboarded, calls, completedBy>>
appVars == <<ocrVars, setupVars, authVars>>
pageVars == <<payVars, expVars, appVars>>
vars == <<coreVars, pageVars>>

NoRet == [kind |-> "none"]

\* an optional field: undefined is the empty set, a value v is {v}
Undefined == {}
Some(v) == {v}

\* the state of a page that is not mounted: the useState initial values,
\* over a storage that holds an empty list
PayrollAtRest ==
    /\ storedPayroll = << >>
    /\ payrolls = << >>
    /\ employees = << >>
    /\ payrollForm = Undefined
    /\ selectedEmployee = Undefined
    /\ showPayrollModal = FALSE

\* the OCR state of the expenses page: no file, no extraction
OcrAtRest ==
    /\ selectedFile = Undefined
    /\ ocrProcessing = FALSE
    /\ ocrData = Undefined
    /\ previewUrl = Undefined
    /\ showOCRModal = FALSE
    /\ extraction = {}

ExpensesAtRest ==
    /\ storedExpenses = << >>
    /\ pageExpenses = << >>
    /\ expenseForm = Undefined
    /\ showExpenseModal = FALSE
    /\ OcrAtRest

\* STORAGE_KEYS of the five lists initializeMockData looks at
DataKeys == {"goji_expenses", "goji_employees", "goji_budgets", "goji_revenue", "goji_payroll"}

\* a storage whose lists have been emptied, and no employees page
SetupAtRest ==
    /\ storedKeys = DataKeys
    /\ storedBudgets = << >>
    /\ storedRevenue = << >>
    /\ storedSettings = Undefined
    /\ employeeList = << >>

\* nobody has signed up or logged in
AuthAtRest ==
    /\ storedUsers = << >>
    /\ storedToken = Undefined
    /\ storedCurrentUser = Undefined
    /\ storedOnboarding = FALSE
    /\ user = Undefined
    /\ isOnboarded = FALSE
    /\ calls = {}
    /\ completedBy = {}

PagesAtRest ==
    /\ clock = 0
    /\ PayrollAtRest
    /\ ExpensesAtRest
    /\ SetupAtRest
    /\ storedEmployees = << >>
    /\ AuthAtRest

(***************************************************************************)
(* Text helpers                                                            *)
(***************************************************************************)
UpperCase == <<"A","B","C","D","E","F","G","H","I","J","K","L","M",
               "N","O","P","Q","R","S","T","U","V","W","X","Y","Z">>
LowerCase == <<"a","b","c","d","e","f","g","h","i","j","k","l","m",
               "n","o","p","q","r","s","t","u","v","w","x","y","z">>

\* String.prototype.toLowerCase, one character
ToLowerChar(c) ==
    IF \E i \in 1..Len(UpperCase) : UpperCase[i] = c
    THEN LowerCase[CHOOSE i \in 1..Len(UpperCase) : UpperCase[i] = c]
    ELSE c

\* String.prototype.toLowerCase
toLowerCase(s) == [i \in 1..Len(s) |-> ToLowerChar(s[i])]

\* String.prototype.includes
includes(text, keyword) ==
    \E i \in 1..(Len(text) - Len(keyword) + 1) :
        SubSeq(text, i, i + Len(keyword) - 1) = keyword

(***************************************************************************)
(* categorizeExpense                                                       *)
(***************************************************************************)
\* the keys of categoryKeywords in declaration order (Object.entries order)
CategoryOrder ==
    <<"marketing", "software", "rent", "utilities", "travel",
      "office_supplies", "payroll", "other">>

categoryKeywords ==
    [c \in {CategoryOrder[i] : i \in 1..Len(CategoryOrder)} |->
      CASE c = "marketing" -> <<
        <<"a","d">>,
        <<"a","d","s">>,
        <<"m","a","r","k","e","t","i","n","g">>,
        <<"c","a","m","p","a","i","g","n">>,
        <<"s","o","c","i","a","l"," ","m","e","d","i","a">>,
        <<"f","a","c","e","b","o","o","k">>,
        <<"g","o","o","g","l","e"," ","a","d","s">>,
        <<"s","e","o">>,
        <<"p","p","c">>
      >>
    [] c = "software" -> <<
        <<"a","w","s">>,
        <<"c","l","o","u","d">>,
        <<"s","a","a","s">>,
        <<"s","o","f","t","w","a","r","e">>,
        <<"s","u","b","s","c","r","i","p","t","i","o","n">>,
        <<"l","i","c","e","n","s","e">>,
        <<"g","i","t","h","u","b">>,
        <<"a","z","u","r","e">>,
        <<"h","e","r","o","k","u">>,
        <<"d","i","g","i","t","a","l"," ","o","c","e","a","n">>
      >>
    [] c = "rent" -> <<
        <<"r","e","n","t">>,
        <<"l","e","a","s","e">>,
        <<"o","f","f","i","c","e"," ","s","p","a","c","e">>,
        <<"p","r","o","p","e","r","t","y">>,
        <<"l","a","n","d","l","o","r","d">>
      >>
    [] c = "utilities" -> <<
        <<"e","l","e","c","t","r","i","c">>,
        <<"e","l","e","c","t","r","i","c","i","t","y">>,
        <<"w","a","t","e","r">>,
        <<"g","a","s">>,
        <<"i","n","t","e","r","n","e","t">>,
        <<"p","h","o","n","e">>,
        <<"u","t","i","l","i","t","y">>
      >>
    [] c = "travel" -> <<
        <<"f","l","i","g","h","t">>,
        <<"h","o","t","e","l">>,
        <<"a","i","r","b","n","b">>,
        <<"u","b","e","r">>,
        <<"l","y","f","t">>,
        <<"a","i","r","l","i","n","e">>,
        <<"t","r","a","v","e","l">>,
        <<"t","r","a","n","s","p","o","r","t","a","t","i","o","n">>
      >>
    [] c = "office_supplies" -> <<
        <<"o","f","f","i","c","e">>,
        <<"s","u","p","p","l","i","e","s">>,
        <<"s","t","a","t","i","o","n","e","r","y">>,
        <<"f","u","r","n","i","t","u","r","e">>,
        <<"e","q","u","i","p","m","e","n","t">>,
        <<"d","e","p","o","t">>
      >>
    [] c = "payroll" -> <<
        <<"s","a","l","a","r","y">>,
        <<"w","a","g","e">>,
        <<"p","a","y","r","o","l","l">>,
        <<"c","o","m","p","e","n","s","a","t","i","o","n">>
      >>
    [] OTHER -> << >> ]

\* the text categorizeExpense scans: `${title} ${description}`.toLowerCase()
CategorizeText(title, description) ==
    toLowerCase(title \o <<" ">> \o description)

\* the inner loop: one point for each keyword the text includes
RECURSIVE KeywordScore(_, _, _)
KeywordScore(text, keywords, k) ==
    IF k > Len(keywords) THEN 0
    ELSE (IF includes(text, toLowerCase(keywords[k])) THEN 1 ELSE 0)
         + KeywordScore(text, keywords, k + 1)

\* the comparison that replaces the best category so far (a variant: >=)
BetterScoreOrEqual(score, bestScore) == score >= bestScore

\* if (score > bestScore)
BetterScore(score, bestScore) == score > bestScore

\* the outer loop over Object.entries(categoryKeywords), from entry i on
RECURSIVE CategorizeLoop(_, _, _, _)
CategorizeLoop(text, i, bestCategory, bestScore) ==
    IF i > Len(CategoryOrder) THEN [category |-> bestCategory, score |-> bestScore]
    ELSE LET category == CategoryOrder[i]
             score == KeywordScore(text, categoryKeywords[category], 1)
         IN  IF category = "other"
             THEN CategorizeLoop(text, i + 1, bestCategory, bestScore)
             ELSE IF BetterScore(score, bestScore)
                  THEN CategorizeLoop(text, i + 1, category, score)
                  ELSE CategorizeLoop(text, i + 1, bestCategory, bestScore)

Min(a, b) == IF a <= b THEN a ELSE b
Max(a, b) == IF a >= b THEN a ELSE b

\* confidence, in hundredths: bestScore > 0 ? Math.min(0.7 + bestScore * 0.1, 0.98) : 0.5
CategorizeConfidence(bestScore) ==
    IF bestScore > 0 THEN Min(70 + bestScore * 10, 98) ELSE 50

categorizeExpense(title, description, amount) ==
    LET best == CategorizeLoop(CategorizeText(title, description), 1, "other", 0)
    IN  [category |-> best.category, confidence |-> CategorizeConfidence(best.score)]

\* ---- the texts the calls are made with
SampleTitles ==
    { << >>,
      <<"G","o","o","g","l","e"," ","A","d","s">>,
      <<"A","W","S"," ","C","l","o","u","d">>,
      <<"O","f","f","i","c","e"," ","s","p","a","c","e">>,
      <<"B","r","e","a","d">>,
      <<"L","u","n","c","h">>,
      <<"U","b","e","r"," ","t","o"," ","h","o","t","e","l">>,
      <<"O","f","f","i","c","e"," ","D","e","p","o","t">>,
      <<"R","e","n","t">> }

SampleDescriptions ==
    { << >>,
      <<"a","d"," ","c","a","m","p","a","i","g","n">>,
      <<"o","f","f","i","c","e"," ","s","u","p","p","l","i","e","s">>,
      <<"w","a","t","e","r"," ","a","n","d"," ","g","a","s">>,
      <<"t","e","a","m"," ","d","i","n","n","e","r">>,
      <<"S","a","l","a","r","y">>,
      <<"E","l","e","c","t","r","i","c","i","t","y">> }

SampleAmounts == {50, 4200}

CategorizeInputs ==
    [title : SampleTitles, description : SampleDescriptions, amount : SampleAmounts]

\* the date the calls of this module are made at
SampleNow == 24322     \* November 2026

InitCategorize ==
    /\ pc = "ready"
    /\ args \in CategorizeInputs
    /\ ret = NoRet
    /\ now = SampleNow
    /\ PagesAtRest

CallCategorize ==
    /\ pc = "ready"
    /\ pc' = "done"
    /\ ret' = categorizeExpense(args.title, args.description, args.amount)
    /\ UNCHANGED <<args, now, pageVars>>

NextCategorize == CallCategorize

SpecCategorize == InitCategorize /\ [][NextCategorize]_vars

(***************************************************************************)
(* C5: categorizeExpense returns the category whose keyword count is the   *)
(* highest, the first declared one among equals; with no keyword found it  *)
(* returns "other" with confidence 0.5, otherwise the confidence is        *)
(* min(0.7 + 0.1 * count, 0.98).                                           *)
(***************************************************************************)
\* the number of keywords of category c that occur in the text
MatchCount(text, c) ==
    Cardinality({k \in 1..Len(categoryKeywords[c]) : includes(text, categoryKeywords[c][k])})

ScoredIndexes == {i \in 1..Len(CategoryOrder) : CategoryOrder[i] # "other"}

C5_CategorizePicksFirstBest ==
    pc = "done" =>
        LET text == CategorizeText(args.title, args.description)
            top  == CHOOSE i \in ScoredIndexes :
                        /\ \A j \in ScoredIndexes :
                              MatchCount(text, CategoryOrder[j]) <= MatchCount(text, CategoryOrder[i])
                        /\ \A j \in ScoredIndexes :
                              j < i => MatchCount(text, CategoryOrder[j]) < MatchCount(text, CategoryOrder[i])
            n    == MatchCount(text, CategoryOrder[top])
        IN  IF n = 0
            THEN ret = [category |-> "other", confidence |-> 50]
            ELSE /\ ret.category = CategoryOrder[top]
                 /\ ret.confidence = Min(70 + 10 * n, 98)

\* a tie between two categories was decided (rent before office_supplies)
C5_Witness ==
    /\ pc = "done"
    /\ ret.category = "rent"
    /\ LET text == CategorizeText(args.title, args.description)
       IN  MatchCount(text, "rent") = MatchCount(text, "office_supplies")

(***************************************************************************)
(* Records                                                                 *)
(***************************************************************************)

\* an Expense (lib/types); amounts are whole currency units
MkExpense(id, title, description, amount, category, date, status, anomaly, confidence) ==
    [ id |-> id, title |-> title, description |-> description, amount |-> amount,
      category |-> category, expense_date |-> date, status |-> status,
      is_anomaly |-> anomaly, ai_confidence |-> confidence ]

\* Array.prototype.reduce((sum, val) => sum + val, 0) over a sequence of numbers
RECURSIVE SumSeq(_, _)
SumSeq(s, i) == IF i > Len(s) THEN 0 ELSE s[i] + SumSeq(s, i + 1)

(***************************************************************************)
(* detectAnomaly                                                           *)
(***************************************************************************)
\* Math.sqrt on an exact square root's integer part: the largest r in lo..hi
\* with r * r <= x
RECURSIVE ISqrtSearch(_, _, _)
ISqrtSearch(x, lo, hi) ==
    IF lo >= hi THEN lo
    ELSE LET mid == (lo + hi + 1) \div 2
         IN  IF mid * mid <= x THEN ISqrtSearch(x, mid, hi)
                               ELSE ISqrtSearch(x, lo, mid - 1)

\* the largest root TLC's 32-bit integers can square
SqrtCap == 46340

ISqrt(x) == ISqrtSearch(x, 0, Min(x, SqrtCap))

\* historicalExpenses.filter(e => e.category === category).map(e => e.amount)
CategoryAmounts(category, historicalExpenses) ==
    LET categoryExpenses == SelectSeq(historicalExpenses, LAMBDA e : e.category = category)
    IN  [i \in 1..Len(categoryExpenses) |-> categoryExpenses[i].amount]

\* a variant of the comparison: >= instead of >
AboveThresholdOrEqual(lhs, rhs) == lhs >= rhs

\* the comparison of return amount > avg + 2 * stdDev
AboveThreshold(lhs, rhs) == lhs > rhs

\* With n amounts of sum S: avg = S/n, variance = sum((v - avg)^2)/n
\* = W/n^2 for the integer W = (sum of (n*v - S)^2) / n, stdDev = sqrt(W)/n.
\* amount > avg + 2*stdDev is n*amount - S > sqrt(4*W); both sides of it are
\* compared through the integer part of the root, which decides it exactly
\* because n*amount - S is an integer.
detectAnomaly(amount, category, historicalExpenses) ==
    LET amounts == CategoryAmounts(category, historicalExpenses)
        n == Len(amounts)
        S == SumSeq(amounts, 1)
        squares == [i \in 1..n |-> (n * amounts[i] - S) * (n * amounts[i] - S)]
        W == SumSeq(squares, 1) \div n
    IN  IF n = 0 THEN FALSE
        ELSE AboveThreshold(n * amount - S, ISqrt(4 * W))

\* ---- the calls
MaxHistory == 5

AnomalyCategories == {"software", "rent"}
HistoryAmounts == {100, 5000}
CandidateAmounts == {99, 100, 101, 4999, 5000, 5001}

HistoryExpense(category, amount) ==
    MkExpense("exp", << >>, << >>, amount, category, SampleNow, "approved", FALSE, Undefined)

Histories ==
    UNION { [1..k -> {HistoryExpense(c, a) : c \in AnomalyCategories, a \in HistoryAmounts}] :
            k \in 0..MaxHistory }

InitAnomaly ==
    /\ pc = "ready"
    /\ args \in [amount : CandidateAmounts, category : {"software"}, history : Histories]
    /\ ret = NoRet
    /\ now = SampleNow
    /\ PagesAtRest

CallDetectAnomaly ==
    /\ pc = "ready"
    /\ pc' = "done"
    /\ ret' = [kind |-> "anomaly",
               flag |-> detectAnomaly(args.amount, args.category, args.history)]
    /\ UNCHANGED <<args, now, pageVars>>

NextAnomaly == CallDetectAnomaly

SpecAnomaly == InitAnomaly /\ [][NextAnomaly]_vars

(***************************************************************************)
(* C2: detectAnomaly is false without history of the category; otherwise   *)
(* it is true exactly when amount > mean + 2 * (population standard        *)
(* deviation), strictly.  With d = n*amount - sum, that is d > 0 and       *)
(* d^2 > 4 * (n * sum of squares - sum^2).                                 *)
(***************************************************************************)
SameCategory(history, category) == {i \in 1..Len(history) : history[i].category = category}

RECURSIVE SetSum(_, _)
SetSum(f, S) == IF S = {} THEN 0
                ELSE LET x == CHOOSE y \in S : TRUE IN f[x] + SetSum(f, S \ {x})

ExpectedAnomaly(amount, category, history) ==
    LET idx == SameCategory(history, category)
        n   == Cardinality(idx)
        sum == SetSum([i \in idx |-> history[i].amount], idx)
        sq  == SetSum([i \in idx |-> history[i].amount * history[i].amount], idx)
        d   == n * amount - sum
    IN  /\ n > 0
        /\ d > 0
        /\ d * d > 4 * (n * sq - sum * sum)

C2_Scenario(amount) ==
    /\ args.amount = amount
    /\ CategoryAmounts(args.category, args.history) = <<100, 100, 100, 100, 5000>>

C2_AnomalyIsStrictTwoSigma ==
    pc = "done" =>
        /\ ret.flag = ExpectedAnomaly(args.amount, args.category, args.history)
        /\ SameCategory(args.history, args.category) = {} => ret.flag = FALSE
        /\ C2_Scenario(5001) => ret.flag = TRUE
        /\ C2_Scenario(5000) => ret.flag = FALSE
        /\ C2_Scenario(4999) => ret.flag = FALSE
        /\ Len(CategoryAmounts(args.category, args.history)) = 1 =>
              (ret.flag <=> args.amount > CategoryAmounts(args.category, args.history)[1])

\* the boundary case has been evaluated: amount = mean + 2 sigma = 5000
C2_Witness ==
    /\ pc = "done"
    /\ ret.kind = "anomaly"
    /\ C2_Scenario(5000)
    /\ ret.flag = FALSE

(***************************************************************************)
(* predictCashFlow                                                         *)
(***************************************************************************)
\* a JavaScript number that may be NaN; a finite one is numer/denom, denom > 0
NaN == [nan |-> TRUE, numer |-> 0, denom |-> 1]
Num(numer, denom) == [nan |-> FALSE, numer |-> numer, denom |-> denom]
Whole(v) == Num(v, 1)

\* x <= y and x > y on such numbers: every comparison with NaN is false
NumLe(x, y) == ~x.nan /\ ~y.nan /\ x.numer * y.denom <= y.numer * x.denom
NumGt(x, y) == ~x.nan /\ ~y.nan /\ x.numer * y.denom > y.numer * x.denom

\* Math.round: the nearest integer, a half going up; NaN stays NaN
MathRound(x) ==
    IF x.nan THEN NaN
    ELSE Whole((2 * x.numer + x.denom) \div (2 * x.denom))

\* monthlyTotals after the forEach over expenses i..: the <<key, total>>
\* entries in order of first insertion (the key order of Object.values)
RECURSIVE MonthlyTotals(_, _, _)
MonthlyTotals(expenses, i, acc) ==
    IF i > Len(expenses) THEN acc
    ELSE LET key == expenses[i].expense_date
             pos == {j \in 1..Len(acc) : acc[j][1] = key}
         IN  IF pos = {}
             THEN MonthlyTotals(expenses, i + 1, Append(acc, <<key, expenses[i].amount>>))
             ELSE LET j == CHOOSE k \in pos : TRUE
                  IN  MonthlyTotals(expenses, i + 1,
                        [acc EXCEPT ![j] = <<key, acc[j][2] + expenses[i].amount>>])

\* avg + trend * i as an exact fraction over totals.length; NaN for no totals
\* (avg = 0 / 0)
Predicted(totals, i) ==
    LET n == Len(totals)
        sum == SumSeq(totals, 1)
        trendN == IF n > 1 THEN totals[1] - totals[n] ELSE 0   \* trend * n
    IN  IF n = 0 THEN NaN ELSE Num(sum + trendN * i, n)

\* predicted * factor/100 (predicted - margin is 85%, predicted + margin 115%)
Scale(x, percent) == IF x.nan THEN NaN ELSE Num(x.numer * percent, x.denom * 100)

\* Math.round(predicted - margin), margin = predicted * 0.15
LowerBound(predicted) == MathRound(Scale(predicted, 85))

\* Math.round(predicted + margin)
UpperBound(predicted) == MathRound(Scale(predicted, 115))

\* a variant that compares the rounded prediction with the budget
LikelyOverrunRounded(predicted, monthlyBudget) ==
    NumGt(MathRound(predicted), Whole(monthlyBudget))

\* likely_overrun: predicted > monthlyBudget
LikelyOverrun(predicted, monthlyBudget) == NumGt(predicted, Whole(monthlyBudget))

\* the body of the for loop, for one i
Prediction(totals, monthlyBudget, i, today) ==
    LET predicted == Predicted(totals, i)
    IN  [ month |-> today + i,
          predicted_expenses |-> MathRound(predicted),
          confidence_interval |-> <<LowerBound(predicted), UpperBound(predicted)>>,
          budget |-> monthlyBudget,
          likely_overrun |-> LikelyOverrun(predicted, monthlyBudget) ]

predictCashFlow(historicalExpenses, monthlyBudget, monthsAhead, today) ==
    LET monthlyTotals == MonthlyTotals(historicalExpenses, 1, << >>)
        totals == [j \in 1..Len(monthlyTotals) |-> monthlyTotals[j][2]]
    IN  [i \in 1..monthsAhead |-> Prediction(totals, monthlyBudget, i, today)]

\* ---- the calls
MaxForecastHistory == 3
MaxMonthsAhead == 3

ForecastAmounts == {100, 1000}
ForecastDates == {SampleNow, SampleNow - 1}
ForecastBudgets == {500}

ForecastExpense(amount, date) ==
    MkExpense("exp", << >>, << >>, amount, "software", date, "approved", FALSE, Undefined)

ForecastHistories ==
    UNION { [1..k -> {ForecastExpense(a, d) : a \in ForecastAmounts, d \in ForecastDates}] :
            k \in 0..MaxForecastHistory }

InitForecast ==
    /\ pc = "ready"
    /\ args \in [history : ForecastHistories, monthlyBudget : ForecastBudgets,
                 monthsAhead : 0..MaxMonthsAhead]
    /\ ret = NoRet
    /\ now = SampleNow
    /\ PagesAtRest

CallPredictCashFlow ==
    /\ pc = "ready"
    /\ pc' = "done"
    /\ ret' = [kind |-> "forecast",
               predictions |-> predictCashFlow(args.history, args.monthlyBudget,
                                               args.monthsAhead, now)]
    /\ UNCHANGED <<args, now, pageVars>>

NextForecast == CallPredictCashFlow

SpecForecast == InitForecast /\ [][NextForecast]_vars

(***************************************************************************)
(* C3: predictCashFlow returns exactly monthsAhead predictions, each with  *)
(* confidence_interval[0] <= predicted_expenses <= confidence_interval[1]. *)
(***************************************************************************)
WithinInterval(p) ==
    /\ NumLe(p.confidence_interval[1], p.predicted_expenses)
    /\ NumLe(p.predicted_expenses, p.confidence_interval[2])

\* stated for the non-empty histories: there no number of the result is NaN
C3_PredictionsWithinInterval ==
    (pc = "done" /\ args.history # << >>) =>
        /\ Len(ret.predictions) = args.monthsAhead
        /\ \A i \in 1..Len(ret.predictions) : WithinInterval(ret.predictions[i])

(***************************************************************************)
(* C11: predictCashFlow called with an empty expense history returns a     *)
(* defined fallback: no returned prediction has a NaN predicted_expenses   *)
(* or a NaN confidence bound.                                              *)
(***************************************************************************)
C11_EmptyHistoryDefined ==
    (pc = "done" /\ args.history = << >>) =>
        \A i \in 1..Len(ret.predictions) :
            /\ ~ret.predictions[i].predicted_expenses.nan
            /\ ~ret.predictions[i].confidence_interval[1].nan
            /\ ~ret.predictions[i].confidence_interval[2].nan

(***************************************************************************)
(* calculateHealthScore                                                    *)
(***************************************************************************)
\* a Budget (lib/types)
MkBudget(id, category, monthly_limit, is_active) ==
    [ id |-> id, category |-> category, monthly_limit |-> monthly_limit,
      is_active |-> is_active ]

\* Number(x.toFixed(1)) for x = numer/denom >= 0, in tenths.  toFixed rounds
\* the binary value of the double to the nearest tenth; where the exact
\* value lies halfway between two tenths the double may lie on either side,
\* and tieUp says on which.
ToFixed1(numer, denom, tieUp) ==
    LET tenths == (10 * numer) \div denom
        rest   == 10 * numer - tenths * denom
    IN  IF 2 * rest > denom \/ (2 * rest = denom /\ tieUp) THEN tenths + 1 ELSE tenths

\* x.toFixed(1) has to round a value halfway between two tenths
IsTie(numer, denom) == 2 * ((10 * numer) % denom) = denom

\* monthlyExpenses: the expenses dated in the current month and year
MonthlyExpenses(expenses, today) == SelectSeq(expenses, LAMBDA e : e.expense_date = today)

\* the total of the month's expenses of one budget's category
BudgetSpend(monthlyExpenses, budget) ==
    LET categoryExpenses == SelectSeq(monthlyExpenses, LAMBDA e : e.category = budget.category)
    IN  SumSeq([i \in 1..Len(categoryExpenses) |-> categoryExpenses[i].amount], 1)

\* the budgets.forEach: 10 points off for each budget whose spend is above its limit
BudgetScore(expenses, budgets, today) ==
    LET monthlyExpenses == MonthlyExpenses(expenses, today)
        over == Len(SelectSeq(budgets,
                   LAMBDA b : BudgetSpend(monthlyExpenses, b) > b.monthly_limit))
    IN  Max(0, 30 - 10 * over)

\* the grade of a score numer/denom out of 100
GradeOf(numer, denom) ==
    IF numer >= 90 * denom THEN "A"
    ELSE IF numer >= 70 * denom THEN "B"
    ELSE IF numer >= 50 * denom THEN "C"
    ELSE IF numer >= 30 * denom THEN "D" ELSE "F"

\* a variant with the two weights exchanged
ExpenseScoreSwapped(anomalous, pending, n) == Max(0, 40 * n - 10 * anomalous - 15 * pending)

\* expenseScore * n, for n = Math.max(expenses.length, 1)
ExpenseScoreN(anomalous, pending, n) == Max(0, 40 * n - 15 * anomalous - 10 * pending)

\* a variant without the floor at 0
PayrollScoreUnfloored(pendingPayroll) == 30 - pendingPayroll * 5

\* payrollScore
PayrollScore(pendingPayroll) == Max(0, 30 - pendingPayroll * 5)

\* the insights, in the order they are pushed
Insights(anomalous, pending, n, budgetScore, totalN) ==
    (IF 10 * anomalous > n THEN <<"High number of unusual expenses detected">> ELSE << >>)
    \o (IF 5 * pending > n THEN <<"Many expenses pending approval">> ELSE << >>)
    \o (IF budgetScore < 20 THEN <<"Multiple budget categories exceeded">> ELSE << >>)
    \o (IF totalN >= 70 * n THEN <<"Overall financial health is good">> ELSE << >>)

\* scores are in tenths: overall_score 87 is 8.7
calculateHealthScore(expenses, budgets, pendingPayroll, today, tieUp) ==
    LET n == Max(Len(expenses), 1)
        anomalous == Len(SelectSeq(expenses, LAMBDA e : e.is_anomaly))
        pending == Len(SelectSeq(expenses, LAMBDA e : e.status = "pending"))
        expenseN == ExpenseScoreN(anomalous, pending, n)
        payrollScore == PayrollScore(pendingPayroll)
        budgetScore == BudgetScore(expenses, budgets, today)
        totalN == expenseN + (payrollScore + budgetScore) * n   \* total * n
    IN  [ overall_score |-> ToFixed1(totalN, 10 * n, tieUp),
          expense_health |-> ToFixed1(expenseN, 4 * n, tieUp),
          payroll_health |-> ToFixed1(payrollScore, 3, tieUp),
          budget_adherence |-> ToFixed1(budgetScore, 3, tieUp),
          grade |-> GradeOf(totalN, n),
          insights |-> Insights(anomalous, pending, n, budgetScore, totalN) ]

\* ---- the calls
MaxExpenses == 11
MaxOverBudgets == 4
MaxPendingPayroll == 7

\* n expenses of which the first `anomalous` are anomalies and the last
\* `pending` are pending; every second one is dated last month
HealthExpenses(n, anomalous, pending) ==
    [i \in 1..n |->
        MkExpense("exp", << >>, << >>, 100, "software",
                  IF i % 2 = 1 THEN SampleNow ELSE SampleNow - 1,
                  IF i > n - pending THEN "pending" ELSE "approved",
                  i <= anomalous, Undefined)]

\* `over` active budgets with a limit below the month's spend, then `inactive`
\* such budgets that are not active, then `within` budgets with room left
HealthBudgets(over, inactive, within) ==
    [i \in 1..over |-> MkBudget("b", "software", 50, TRUE)]
    \o [i \in 1..inactive |-> MkBudget("b", "software", 50, FALSE)]
    \o [i \in 1..within |-> MkBudget("b", "software", 100000, TRUE)]

HealthInputs ==
    { [ expenses |-> HealthExpenses(n, a, p), budgets |-> HealthBudgets(o, i, w),
        pendingPayroll |-> pp ] :
      n \in 0..MaxExpenses, a \in 0..MaxExpenses, p \in 0..MaxExpenses,
      o \in 0..MaxOverBudgets, i \in 0..1, w \in 0..1,
      pp \in {0, 1, MaxPendingPayroll - 1, MaxPendingPayroll} }

InitHealth ==
    /\ pc = "ready"
    /\ args \in HealthInputs
    /\ ret = NoRet
    /\ now = SampleNow
    /\ PagesAtRest

CallHealthScore ==
    /\ pc = "ready"
    /\ pc' = "done"
    /\ \E tieUp \in BOOLEAN :
          ret' = calculateHealthScore(args.expenses, args.budgets, args.pendingPayroll,
                                      now, tieUp)
    /\ UNCHANGED <<args, now, pageVars>>

NextHealth == CallHealthScore

SpecHealth == InitHealth /\ [][NextHealth]_vars

(***************************************************************************)
(* C4: calculateHealthScore returns overall_score in [0, 10] and the grade *)
(* that the thresholds (>= 9 A, >= 7 B, >= 5 C, >= 3 D, else F) give for   *)
(* the returned overall_score.                                             *)
(***************************************************************************)
\* the exact total * n and n of the call, as the code derives them
HealthTotalN ==
    LET n == Max(Len(args.expenses), 1)
    IN  ExpenseScoreN(Len(SelectSeq(args.expenses, LAMBDA e : e.is_anomaly)),
                      Len(SelectSeq(args.expenses, LAMBDA e : e.status = "pending")), n)
        + (PayrollScore(args.pendingPayroll) + BudgetScore(args.expenses, args.budgets, now)) * n

\* stated for the calls whose score is not halfway between two tenths, where
\* the rounding of toFixed does not depend on the binary value of the double
C4_ScoreInRangeGradeConsistent ==
    (pc = "done" /\ ~IsTie(HealthTotalN, 10 * Max(Len(args.expenses), 1))) =>
        /\ ret.overall_score >= 0
        /\ ret.overall_score <= 100
        /\ ret.grade = GradeOf(ret.overall_score, 1)

(***************************************************************************)
(* Payroll (PayrollPage, lib/mockData).  Money is an exact rational in     *)
(* lowest terms, Num(numer, denom) with denom > 0.                         *)
(***************************************************************************)
RECURSIVE Gcd(_, _)
Gcd(a, b) == IF b = 0 THEN a ELSE Gcd(b, a % b)
Abs(x) == IF x < 0 THEN -x ELSE x

Reduce(numer, denom) ==
    LET g == Gcd(Abs(numer), denom) IN Num(numer \div g, denom \div g)

\* x + y, x - y and x * y
Plus(x, y) ==
    LET l == (x.denom \div Gcd(x.denom, y.denom)) * y.denom
    IN  Reduce(x.numer * (l \div x.denom) + y.numer * (l \div y.denom), l)
Minus(x, y) == Plus(x, Num(-y.numer, y.denom))
Times(x, y) ==
    LET g1 == Gcd(Abs(x.numer), y.denom)
        g2 == Gcd(Abs(y.numer), x.denom)
    IN  Reduce((x.numer \div g1) * (y.numer \div g2), (x.denom \div g2) * (y.denom \div g1))
Over(x, k) == Times(x, Num(1, k))

\* the month (1-12) and the year of a date
MonthOf(date) == (date % 12) + 1
YearOf(date) == date \div 12

\* an Employee (lib/types), with the fields the payroll page reads
MkEmployee(id, employee_id, base_salary, is_active) ==
    [ id |-> id, employee_id |-> employee_id, base_salary |-> base_salary,
      is_active |-> is_active ]

generateMockEmployees ==
    << MkEmployee("1", "EMP001", 8500, TRUE),
       MkEmployee("2", "EMP002", 7500, TRUE),
       MkEmployee("3", "EMP003", 6000, TRUE) >>

\* employees.find(e => e.id === id) || null
FindEmployee(list, id) ==
    IF \E i \in 1..Len(list) : list[i].id = id
    THEN Some(list[CHOOSE i \in 1..Len(list) :
                       /\ list[i].id = id
                       /\ \A j \in 1..(i - 1) : list[j].id # id])
    ELSE Undefined

\* the initial formData, also what resetForm sets
EmptyPayrollForm(today) ==
    [ employee_id |-> "", month |-> MonthOf(today), year |-> YearOf(today),
      overtime_hours |-> 0, bonus |-> 0, allowances |-> 0, tax |-> 0, insurance |-> 0,
      provident_fund |-> 0, loan_repayment |-> 0, other_deductions |-> 0,
      paid_leaves |-> 0, unpaid_leaves |-> 0 ]

\* a variant of the net salary that leaves the leave deduction out
NetWithoutLeave(gross, totalDeductions, leaveDeduction) == Minus(gross, totalDeductions)

\* netSalary = grossSalary - totalDeductions - leaveDeduction
NetSalary(gross, totalDeductions, leaveDeduction) ==
    Minus(Minus(gross, totalDeductions), leaveDeduction)

\* a variant of the fallback that ignores the entered value
OrElseAlways(a, b) == b

\* a || b on numbers: a when a is neither 0 nor NaN, else b
OrElse(a, b) == IF a # 0 THEN Whole(a) ELSE b

\* calculatePayroll: null (Undefined) without a selected employee, else the
\* computed amounts
calculatePayroll(employee, formData) ==
    IF employee = Undefined THEN Undefined
    ELSE
      LET emp == CHOOSE e \in employee : TRUE
          baseSalary == Whole(emp.base_salary)
          overtimePay ==
              Times(Times(Whole(formData.overtime_hours), Over(baseSalary, 176)), Num(3, 2))
          grossSalary ==
              Plus(Plus(Plus(baseSalary, overtimePay), Whole(formData.bonus)),
                   Whole(formData.allowances))
          tax == OrElse(formData.tax, Times(grossSalary, Num(15, 100)))
          insurance == OrElse(formData.insurance, Whole(150))
          providentFund == OrElse(formData.provident_fund, Times(grossSalary, Num(8, 100)))
          totalDeductions ==
              Plus(Plus(Plus(Plus(tax, insurance), providentFund),
                        Whole(formData.loan_repayment)),
                   Whole(formData.other_deductions))
          leaveDeduction == Times(Over(baseSalary, 22), Whole(formData.unpaid_leaves))
          netSalary == NetSalary(grossSalary, totalDeductions, leaveDeduction)
      IN  Some([ base_salary |-> baseSalary, overtime_pay |-> overtimePay,
                 gross_salary |-> grossSalary, tax |-> tax, insurance |-> insurance,
                 provident_fund |-> providentFund, total_deductions |-> totalDeductions,
                 leave_deduction |-> leaveDeduction, net_salary |-> netSalary ])

\* Math.random.  The model draws the values of a run from a family of
\* streams indexed by a seed: the overtime hours (0-9) of the record of
\* employee empIndex and month i, and the bonus (0-999) of an employee
MaxSeed == 1
RandomOvertimeHours(seed, empIndex, i) == (7 * seed + 3 * empIndex + i) % 10
RandomBonus(seed, empIndex) == (499 * seed + 250 * empIndex) % 1000

\* the record generateMockPayroll pushes for employee empIndex and month i
\* (setMonth on a day that the earlier month lacks rolls over; the model
\* takes a day that every month has)
MockPayrollRecord(emp, empIndex, i, today, seed) ==
    LET date == today - i
        overtimeHours == RandomOvertimeHours(seed, empIndex, i)
        baseSalary == Whole(emp.base_salary)
        overtimePay == Times(Times(Whole(overtimeHours), Over(baseSalary, 176)), Num(3, 2))
        bonus == IF i = 0 THEN RandomBonus(seed, empIndex) ELSE 0
        allowances == 200
        grossSalary == Plus(Plus(Plus(baseSalary, overtimePay), Whole(bonus)), Whole(allowances))
        tax == Times(grossSalary, Num(15, 100))
        insurance == Whole(150)
        providentFund == Times(grossSalary, Num(8, 100))
        totalDeductions == Plus(Plus(tax, insurance), providentFund)
        netSalary == Minus(grossSalary, totalDeductions)
    IN  [ id |-> <<"pay", empIndex, i>>, employee_id |-> emp.id,
          month |-> MonthOf(date), year |-> YearOf(date),
          base_salary |-> baseSalary, overtime_hours |-> overtimeHours,
          overtime_pay |-> overtimePay, bonus |-> bonus, allowances |-> allowances,
          gross_salary |-> grossSalary, tax |-> tax, insurance |-> insurance,
          provident_fund |-> providentFund, loan_repayment |-> 0, other_deductions |-> 0,
          total_deductions |-> totalDeductions, paid_leaves |-> 0, unpaid_leaves |-> 0,
          leave_deduction |-> Whole(0), net_salary |-> netSalary,
          status |-> IF i > 0 THEN "paid" ELSE "processed",
          processed_at |-> IF i = 0 THEN Some(date) ELSE Undefined ]

\* generateMockPayroll: three months for each mock employee, in push order
generateMockPayroll(today, seed) ==
    [ k \in 1..(3 * Len(generateMockEmployees)) |->
        LET empIndex == (k - 1) \div 3
            i == (k - 1) % 3
        IN  MockPayrollRecord(generateMockEmployees[empIndex + 1], empIndex, i, today, seed) ]

\* the record handleSavePayroll builds from the form and the calculation
NewPayroll(emp, formData, calculated, status, time) ==
    [ id |-> <<"pay", time>>, employee_id |-> emp.id,
      month |-> formData.month, year |-> formData.year,
      base_salary |-> calculated.base_salary, overtime_hours |-> formData.overtime_hours,
      overtime_pay |-> calculated.overtime_pay, bonus |-> formData.bonus,
      allowances |-> formData.allowances, gross_salary |-> calculated.gross_salary,
      tax |-> calculated.tax, insurance |-> calculated.insurance,
      provident_fund |-> calculated.provident_fund,
      loan_repayment |-> formData.loan_repayment,
      other_deductions |-> formData.other_deductions,
      total_deductions |-> calculated.total_deductions,
      paid_leaves |-> formData.paid_leaves, unpaid_leaves |-> formData.unpaid_leaves,
      leave_deduction |-> calculated.leave_deduction, net_salary |-> calculated.net_salary,
      status |-> status,
      processed_at |-> IF status = "processed" THEN Some(time) ELSE Undefined ]

\* what resetForm sets
ResetPayrollForm ==
    /\ payrollForm' = EmptyPayrollForm(now)
    /\ selectedEmployee' = Undefined
    /\ showPayrollModal' = FALSE

\* the number of payroll records one session saves
MaxClock == 2

\* handleSavePayroll(status), from the Save as Draft and Process & Save
\* buttons of the dialog, enabled while an employee is selected.  Date.now()
\* names the record; the clock has moved on by the next save
handleSavePayroll(status) ==
    /\ showPayrollModal
    /\ selectedEmployee # Undefined
    /\ clock < MaxClock
    /\ LET calculated == calculatePayroll(selectedEmployee, payrollForm)
           newPayroll == NewPayroll(CHOOSE e \in selectedEmployee : TRUE, payrollForm,
                                    CHOOSE c \in calculated : TRUE, status, clock + 1)
           allPayrolls == Append(payrolls, newPayroll)
       IN  /\ storedPayroll' = allPayrolls
           /\ payrolls' = allPayrolls
    /\ clock' = clock + 1
    /\ ResetPayrollForm
    /\ UNCHANGED <<coreVars, expVars, appVars, employees>>

\* const calculated = calculatePayroll(), as a render evaluates it
CallCalculatePayroll ==
    /\ pc = "ready"
    /\ pc' = "done"
    /\ args' = [ employee |-> selectedEmployee, formData |-> payrollForm ]
    /\ ret' = calculatePayroll(selectedEmployee, payrollForm)
    /\ UNCHANGED <<now, pageVars>>

\* the payroll forms the calculator is run on: an employee of the list or
\* none, and each amount either left at 0 or entered
PayrollFormInputs ==
    [ employee_id : {"", "1", "2", "3"},
      month : {MonthOf(SampleNow)}, year : {YearOf(SampleNow)},
      overtime_hours : {0, 10}, bonus : {0, 500}, allowances : {0, 200},
      tax : {0, 1000}, insurance : {0, 100}, provident_fund : {0, 300},
      loan_repayment : {0, 9000}, other_deductions : {0, 50},
      paid_leaves : {0}, unpaid_leaves : {0, 2} ]

\* the application started on an empty storage (initializeMockData wrote the
\* mock payroll), the payroll page loaded it, and the user filled the form
InitPayrollCalc ==
    /\ pc = "ready"
    /\ args = [ employee |-> Undefined, formData |-> Undefined ]
    /\ ret = NoRet
    /\ now = SampleNow
    /\ clock = 0
    /\ \E seed \in 0..MaxSeed :
          /\ storedPayroll = generateMockPayroll(now, seed)
          /\ payrolls = storedPayroll
    /\ employees = generateMockEmployees
    /\ payrollForm \in PayrollFormInputs
    /\ selectedEmployee = FindEmployee(employees, payrollForm.employee_id)
    /\ showPayrollModal = TRUE
    /\ ExpensesAtRest
    /\ SetupAtRest
    /\ storedEmployees = generateMockEmployees
    /\ AuthAtRest

NextPayrollCalc ==
    \/ CallCalculatePayroll
    \/ handleSavePayroll("draft")
    \/ handleSavePayroll("processed")

SpecPayrollCalc == InitPayrollCalc /\ [][NextPayrollCalc]_vars

(***************************************************************************)
(* C1: every result of calculatePayroll and every payroll record stored by *)
(* handleSavePayroll or produced by generateMockPayroll satisfies          *)
(* gross = base + overtime_pay + bonus + allowances, total_deductions =    *)
(* tax + insurance + provident_fund + loan_repayment + other_deductions    *)
(* and net = gross - total_deductions - leave_deduction.                   *)
(***************************************************************************)
\* the three identities on amounts given as numbers
PayrollIdentities(p, bonus, allowances, loan, other) ==
    /\ p.gross_salary = Plus(p.base_salary, Plus(p.overtime_pay, Plus(bonus, allowances)))
    /\ p.total_deductions =
          Plus(p.tax, Plus(p.insurance, Plus(p.provident_fund, Plus(loan, other))))
    /\ Plus(p.net_salary, Plus(p.total_deductions, p.leave_deduction)) = p.gross_salary

C1_PayrollIdentities ==
    /\ \A i \in 1..Len(storedPayroll) :
          LET p == storedPayroll[i]
          IN  PayrollIdentities(p, Whole(p.bonus), Whole(p.allowances),
                                Whole(p.loan_repayment), Whole(p.other_deductions))
    /\ pc = "done" =>
          \A c \in ret :
              PayrollIdentities(c, Whole(args.formData.bonus), Whole(args.formData.allowances),
                                Whole(args.formData.loan_repayment),
                                Whole(args.formData.other_deductions))

\* a record saved with unpaid leaves and a loan repayment sits behind the
\* mock records, and a calculation with unpaid leaves has returned
C1_Witness ==
    /\ pc = "done"
    /\ \E c \in ret : c.leave_deduction.numer > 0 /\ c.overtime_pay.numer > 0
    /\ Len(storedPayroll) = 3 * Len(generateMockEmployees) + 1
    /\ storedPayroll[Len(storedPayroll)].unpaid_leaves > 0
    /\ storedPayroll[Len(storedPayroll)].loan_repayment > 0
    /\ storedPayroll[1].overtime_hours > 0

(***************************************************************************)
(* C6: calculatePayroll derives overtime_pay = overtime_hours x            *)
(* (base_salary / 176) x 1.5 and leave_deduction = (base_salary / 22) x    *)
(* unpaid_leaves; tax, insurance and provident_fund are the entered values *)
(* when given (non-zero) and otherwise 15% of gross, 150 and 8% of gross.  *)
(* Base 6000, 10 overtime hours, bonus 500, allowances 200, 2 unpaid       *)
(* leaves and no overrides give a net salary of 4857.30 to the cent.       *)
(***************************************************************************)
\* the form of the worked example, and the employee it is computed for
C6_ScenarioForm(f) ==
    /\ f.overtime_hours = 10 /\ f.bonus = 500 /\ f.allowances = 200 /\ f.unpaid_leaves = 2
    /\ f.tax = 0 /\ f.insurance = 0 /\ f.provident_fund = 0
    /\ f.loan_repayment = 0 /\ f.other_deductions = 0

C6_PayrollFormulas ==
    pc = "done" =>
        \A c \in ret : \A emp \in args.employee :
            LET f == args.formData
            IN  /\ Times(c.overtime_pay, Whole(2 * 176)) =
                      Whole(3 * f.overtime_hours * emp.base_salary)
                /\ Times(c.leave_deduction, Whole(22)) = Whole(emp.base_salary * f.unpaid_leaves)
                /\ IF f.tax # 0 THEN c.tax = Whole(f.tax)
                   ELSE Times(c.tax, Whole(100)) = Times(c.gross_salary, Whole(15))
                /\ IF f.insurance # 0 THEN c.insurance = Whole(f.insurance)
                   ELSE c.insurance = Whole(150)
                /\ IF f.provident_fund # 0 THEN c.provident_fund = Whole(f.provident_fund)
                   ELSE Times(c.provident_fund, Whole(100)) = Times(c.gross_salary, Whole(8))
                /\ (emp.base_salary = 6000 /\ C6_ScenarioForm(f)) =>
                      MathRound(Times(c.net_salary, Whole(100))) = Whole(485730)

\* the worked example has been computed
C6_Witness ==
    /\ pc = "done"
    /\ ret # Undefined
    /\ \E emp \in args.employee : emp.base_salary = 6000
    /\ C6_ScenarioForm(args.formData)

(***************************************************************************)
(* C10: for validated inputs (base_salary > 0, every entered amount, hour  *)
(* and leave count >= 0) every monetary value calculatePayroll returns,    *)
(* net_salary included, is non-negative.                                   *)
(***************************************************************************)
C10_ValidatedInputs ==
    /\ \A emp \in args.employee : emp.base_salary > 0
    /\ LET f == args.formData
       IN  /\ f.overtime_hours >= 0 /\ f.bonus >= 0 /\ f.allowances >= 0
           /\ f.tax >= 0 /\ f.insurance >= 0 /\ f.provident_fund >= 0
           /\ f.loan_repayment >= 0 /\ f.other_deductions >= 0 /\ f.unpaid_leaves >= 0

C10_PayrollNonNegative ==
    (pc = "done" /\ C10_ValidatedInputs) =>
        \A c \in ret :
            /\ c.base_salary.numer >= 0 /\ c.overtime_pay.numer >= 0
            /\ c.gross_salary.numer >= 0 /\ c.tax.numer >= 0 /\ c.insurance.numer >= 0
            /\ c.provident_fund.numer >= 0 /\ c.total_deductions.numer >= 0
            /\ c.leave_deduction.numer >= 0 /\ c.net_salary.numer >= 0

(***************************************************************************)
(* The payroll page: the dialog, the form, and the rows of the table.      *)
(***************************************************************************)
Digits == <<"0","1","2","3","4","5","6","7","8","9">>
IsDigit(c) == \E d \in 1..Len(Digits) : Digits[d] = c
DigitValue(c) == (CHOOSE d \in 1..Len(Digits) : Digits[d] = c) - 1

\* the value of the longest run of digits at the start of text from position i
RECURSIVE ParseDigits(_, _, _)
ParseDigits(text, i, acc) ==
    IF i > Len(text) \/ ~IsDigit(text[i]) THEN acc
    ELSE ParseDigits(text, i + 1, 10 * acc + DigitValue(text[i]))

\* parseFloat on a text without a fractional part or an exponent: an
\* optional sign and digits, whatever follows ignored; NaN without a digit
parseFloat(text) ==
    LET signed == Len(text) > 0 /\ text[1] \in {"-", "+"}
        start == IF signed THEN 2 ELSE 1
    IN  IF start > Len(text) \/ ~IsDigit(text[start]) THEN NaN
        ELSE IF signed /\ text[1] = "-" THEN Whole(-ParseDigits(text, start, 0))
        ELSE Whole(ParseDigits(text, start, 0))

\* parseFloat(e.target.value) || 0
ParseFloatOrZero(text) ==
    LET v == parseFloat(text) IN IF v.nan \/ v.numer = 0 THEN 0 ELSE v.numer

\* what the user types into the Overtime Hours input
OvertimeInputs == { << >>, <<"1", "0">>, <<"-", "8">> }

\* the page has mounted and loaded a storage that holds an emptied payroll
\* list and the mock employees
InitPayroll ==
    /\ pc = "page"
    /\ args = << >>
    /\ ret = NoRet
    /\ now = SampleNow
    /\ clock = 0
    /\ storedPayroll = << >>
    /\ payrolls = << >>
    /\ storedEmployees = generateMockEmployees
    /\ employees = storedEmployees
    /\ payrollForm = EmptyPayrollForm(now)
    /\ selectedEmployee = Undefined
    /\ showPayrollModal = FALSE
    /\ ExpensesAtRest
    /\ SetupAtRest
    /\ AuthAtRest

\* the page mounts (again): fresh component state, then loadData
loadData ==
    /\ payrolls' = storedPayroll
    /\ employees' = storedEmployees
    /\ payrollForm' = EmptyPayrollForm(now)
    /\ selectedEmployee' = Undefined
    /\ showPayrollModal' = FALSE
    /\ UNCHANGED <<coreVars, expVars, appVars, clock, storedPayroll>>

\* the Create Payroll button, and the dialog's onOpenChange
setShowAddModal(open) ==
    /\ showPayrollModal # open
    /\ showPayrollModal' = open
    /\ UNCHANGED <<coreVars, expVars, appVars, clock, storedPayroll, payrolls, employees,
                   payrollForm, selectedEmployee>>

\* the employee Select of the dialog, followed by the effect that looks the
\* employee up
SelectEmployee(id) ==
    /\ showPayrollModal
    /\ \E i \in 1..Len(employees) : employees[i].is_active /\ employees[i].id = id
    /\ payrollForm' = [payrollForm EXCEPT !.employee_id = id]
    /\ selectedEmployee' = FindEmployee(employees, id)
    /\ UNCHANGED <<coreVars, expVars, appVars, clock, storedPayroll, payrolls, employees,
                   showPayrollModal>>

\* onChange of the Overtime Hours input, rendered once an employee is selected
ChangeOvertimeHours(text) ==
    /\ showPayrollModal
    /\ selectedEmployee # Undefined
    /\ payrollForm' = [payrollForm EXCEPT !.overtime_hours = ParseFloatOrZero(text)]
    /\ UNCHANGED <<coreVars, expVars, appVars, clock, storedPayroll, payrolls, employees,
                   selectedEmployee, showPayrollModal>>

\* the Cancel button of the dialog
resetForm ==
    /\ showPayrollModal
    /\ ResetPayrollForm
    /\ UNCHANGED <<coreVars, expVars, appVars, clock, storedPayroll, payrolls, employees>>

\* handleDeletePayroll(id), from the delete button of a row
handleDeletePayroll(id) ==
    /\ \E i \in 1..Len(payrolls) : payrolls[i].id = id
    /\ LET updated == SelectSeq(payrolls, LAMBDA p : p.id # id)
       IN  /\ storedPayroll' = updated
           /\ payrolls' = updated
    /\ UNCHANGED <<coreVars, expVars, appVars, clock, employees, payrollForm, selectedEmployee,
                   showPayrollModal>>

\* a variant that rewrites every row
MarkPaidEveryRow(p, id) == TRUE

\* the rows handleMarkPaid(id) rewrites: p.id === id
MarkPaidRow(p, id) == p.id = id

\* a variant that shows the mark-paid button on every row
MarkPaidShownAlways(p) == TRUE

\* payroll.status === 'processed' && (the mark-paid button)
MarkPaidShown(p) == p.status = "processed"

\* handleMarkPaid(id), from the button shown on a row whose status is processed
handleMarkPaid(id) ==
    /\ \E i \in 1..Len(payrolls) : payrolls[i].id = id /\ MarkPaidShown(payrolls[i])
    /\ LET updated == [ i \in 1..Len(payrolls) |->
                          IF MarkPaidRow(payrolls[i], id)
                          THEN [payrolls[i] EXCEPT !.status = "paid"]
                          ELSE payrolls[i] ]
       IN  /\ storedPayroll' = updated
           /\ payrolls' = updated
    /\ UNCHANGED <<coreVars, expVars, appVars, clock, employees, payrollForm, selectedEmployee,
                   showPayrollModal>>

\* the ids of the rows of the table
PayrollIds == { payrolls[i].id : i \in 1..Len(payrolls) }

NextPayroll ==
    \/ loadData
    \/ \E open \in BOOLEAN : setShowAddModal(open)
    \/ \E id \in {"1", "2", "3"} : SelectEmployee(id)
    \/ \E text \in OvertimeInputs : ChangeOvertimeHours(text)
    \/ handleSavePayroll("draft")
    \/ handleSavePayroll("processed")
    \/ resetForm
    \/ \E id \in PayrollIds : handleDeletePayroll(id)
    \/ \E id \in PayrollIds : handleMarkPaid(id)

SpecPayroll == InitPayroll /\ [][NextPayroll]_vars

(***************************************************************************)
(* C7: under any sequence of save-as-draft, process-and-save, mark-paid    *)
(* and delete operations the status of a stored payroll record never moves *)
(* backwards in the order draft < processed < paid, and it changes only in *)
(* a step that is the mark-paid operation on that very record.             *)
(***************************************************************************)
StatusRank(status) ==
    CASE status = "draft" -> 0 [] status = "processed" -> 1 [] status = "paid" -> 2

C7_StatusStep ==
    \A i \in 1..Len(storedPayroll) : \A j \in 1..Len(storedPayroll') :
        storedPayroll'[j].id = storedPayroll[i].id =>
            /\ StatusRank(storedPayroll'[j].status) >= StatusRank(storedPayroll[i].status)
            /\ storedPayroll'[j].status # storedPayroll[i].status =>
                  handleMarkPaid(storedPayroll[i].id)

C7_StatusMonotonic == [][C7_StatusStep]_vars

\* a record saved as processed has been marked paid next to a draft
C7_Witness ==
    /\ \E i \in 1..Len(storedPayroll) : storedPayroll[i].status = "paid"
    /\ \E i \in 1..Len(storedPayroll) : storedPayroll[i].status = "draft"

(***************************************************************************)
(* C8: after any sequence of handleSavePayroll and handleDeletePayroll     *)
(* calls the stored payroll list holds at most one record for each         *)
(* (employee_id, month, year).                                             *)
(***************************************************************************)
C8_OnePayrollPerPeriod ==
    \A i, j \in 1..Len(storedPayroll) :
        ( /\ storedPayroll[i].employee_id = storedPayroll[j].employee_id
          /\ storedPayroll[i].month = storedPayroll[j].month
          /\ storedPayroll[i].year = storedPayroll[j].year ) => i = j

(***************************************************************************)
(* The expenses page: the manual-entry dialog and the rows of the table.   *)
(***************************************************************************)
\* the initial formData, also what resetForm sets; amount is the text of
\* the input
EmptyExpenseForm(today) ==
    [ title |-> << >>, description |-> << >>, amount |-> << >>, category |-> "",
      expense_date |-> today ]

\* the page mounts (again): fresh component state, then loadExpenses
loadExpenses ==
    /\ pageExpenses' = storedExpenses
    /\ expenseForm' = EmptyExpenseForm(now)
    /\ showExpenseModal' = FALSE
    /\ selectedFile' = Undefined
    /\ ocrProcessing' = FALSE
    /\ ocrData' = Undefined
    /\ previewUrl' = Undefined
    /\ showOCRModal' = FALSE
    /\ extraction' = {}
    /\ UNCHANGED <<coreVars, payVars, setupVars, authVars, storedExpenses>>

\* the Add Expense button, and the dialog's onOpenChange
setShowAddExpenseModal(open) ==
    /\ showExpenseModal # open
    /\ showExpenseModal' = open
    /\ UNCHANGED <<coreVars, payVars, appVars, storedExpenses, pageExpenses, expenseForm>>

\* what the user types and picks in the dialog
ExpenseTitleInputs == { <<"R","e","n","t">> }
ExpenseAmountInputs ==
    { <<"1","0","0">>, <<"5","0","0","0">>, <<"0">>, <<"-","5">>, <<"a","b","c">> }

\* the value an <input type="number"> reports for what was typed: the text
\* when it is a number (here: digits after an optional minus sign), else ""
NumberInputValue(typed) ==
    LET start == IF Len(typed) > 0 /\ typed[1] = "-" THEN 2 ELSE 1
    IN  IF start <= Len(typed) /\ \A i \in start..Len(typed) : IsDigit(typed[i])
        THEN typed ELSE << >>
ExpenseCategoryInputs == { "", "rent" }

\* onChange of the Title and Amount inputs, onValueChange of the Category select
ChangeExpenseTitle(text) ==
    /\ showExpenseModal
    /\ expenseForm' = [expenseForm EXCEPT !.title = text]
    /\ UNCHANGED <<coreVars, payVars, appVars, storedExpenses, pageExpenses, showExpenseModal>>

ChangeExpenseAmount(text) ==
    /\ showExpenseModal
    /\ expenseForm' = [expenseForm EXCEPT !.amount = NumberInputValue(text)]
    /\ UNCHANGED <<coreVars, payVars, appVars, storedExpenses, pageExpenses, showExpenseModal>>

ChangeExpenseCategory(category) ==
    /\ showExpenseModal
    /\ expenseForm' = [expenseForm EXCEPT !.category = category]
    /\ UNCHANGED <<coreVars, payVars, appVars, storedExpenses, pageExpenses, showExpenseModal>>

\* what resetForm sets
ResetExpenseForm ==
    /\ expenseForm' = EmptyExpenseForm(now)
    /\ selectedFile' = Undefined
    /\ ocrData' = Undefined
    /\ previewUrl' = Undefined
    /\ showExpenseModal' = FALSE
    /\ showOCRModal' = FALSE

\* the Cancel button of the manual dialog and of the receipt dialog
resetExpenseForm ==
    /\ showExpenseModal \/ showOCRModal
    /\ ResetExpenseForm
    /\ UNCHANGED <<coreVars, payVars, setupVars, authVars, storedExpenses, pageExpenses,
                   ocrProcessing, extraction>>

\* a variant of the validation without the test of the sign
ExpenseFormRejectedUnsigned(form) ==
    \/ form.title = << >>
    \/ form.amount = << >>

\* !formData.title || !formData.amount || parseFloat(formData.amount) <= 0
ExpenseFormRejected(form) ==
    \/ form.title = << >>
    \/ form.amount = << >>
    \/ NumLe(parseFloat(form.amount), Whole(0))

\* handleSaveExpense past its validation
SaveExpense ==
    /\ clock < MaxClock
    /\ LET allExpenses == storedExpenses
           amount == parseFloat(expenseForm.amount).numer
           result == categorizeExpense(expenseForm.title, expenseForm.description, amount)
           finalCategory == IF expenseForm.category = "" THEN result.category
                            ELSE expenseForm.category
           aiConfidence == IF expenseForm.category = "" THEN Some(result.confidence)
                           ELSE Undefined
           isAnomaly == detectAnomaly(amount, finalCategory, allExpenses)
           newExpense == MkExpense(<<"exp", clock + 1>>, expenseForm.title,
                                   expenseForm.description, amount, finalCategory,
                                   expenseForm.expense_date, "pending", isAnomaly,
                                   aiConfidence)
                           @@ [ receipt_url |-> previewUrl, ocr_data |-> ocrData ]
       IN  /\ storedExpenses' = <<newExpense>> \o allExpenses
           /\ pageExpenses' = <<newExpense>> \o allExpenses
    /\ clock' = clock + 1
    /\ ResetExpenseForm
    /\ UNCHANGED <<coreVars, storedPayroll, payrolls, employees, payrollForm,
                   selectedEmployee, showPayrollModal, ocrProcessing, extraction,
                   setupVars, authVars>>

\* handleSaveExpense, from the Save Expense button of either dialog: a rejected
\* form raises a toast and changes nothing
handleSaveExpense ==
    /\ showExpenseModal \/ (showOCRModal /\ ocrData # Undefined)
    /\ IF ExpenseFormRejected(expenseForm) THEN UNCHANGED vars ELSE SaveExpense

\* handleDeleteExpense(id), from the delete button of a row
handleDeleteExpense(id) ==
    /\ \E i \in 1..Len(pageExpenses) : pageExpenses[i].id = id
    /\ LET updated == SelectSeq(pageExpenses, LAMBDA e : e.id # id)
       IN  /\ storedExpenses' = updated
           /\ pageExpenses' = updated
    /\ UNCHANGED <<coreVars, payVars, appVars, expenseForm, showExpenseModal>>

\* a variant that also clears the anomaly flag
WithStatusRechecked(e, status) == [e EXCEPT !.status = status, !.is_anomaly = FALSE]

\* { ...e, status: ... }
WithStatus(e, status) == [e EXCEPT !.status = status]

\* a variant that shows the approve and reject buttons on every row
StatusButtonsAlways(e) == TRUE

\* expense.status === 'pending' && (the approve and the reject button)
StatusButtonsShown(e) == e.status = "pending"

\* handleApproveExpense(id) and handleRejectExpense(id), from the buttons
\* shown on a row whose status is pending
SetExpenseStatus(id, status) ==
    /\ \E i \in 1..Len(pageExpenses) :
          pageExpenses[i].id = id /\ StatusButtonsShown(pageExpenses[i])
    /\ LET updated == [ i \in 1..Len(pageExpenses) |->
                          IF pageExpenses[i].id = id THEN WithStatus(pageExpenses[i], status)
                          ELSE pageExpenses[i] ]
       IN  /\ storedExpenses' = updated
           /\ pageExpenses' = updated
    /\ UNCHANGED <<coreVars, payVars, appVars, expenseForm, showExpenseModal>>

handleApproveExpense(id) == SetExpenseStatus(id, "approved")
handleRejectExpense(id) == SetExpenseStatus(id, "rejected")

\* the ids of the rows of the table
ExpenseIds == { pageExpenses[i].id : i \in 1..Len(pageExpenses) }

\* the page has mounted and loaded a storage that holds an emptied list
InitExpenses ==
    /\ pc = "page"
    /\ args = << >>
    /\ ret = NoRet
    /\ now = SampleNow
    /\ clock = 0
    /\ PayrollAtRest
    /\ storedExpenses = << >>
    /\ pageExpenses = << >>
    /\ expenseForm = EmptyExpenseForm(now)
    /\ showExpenseModal = FALSE
    /\ OcrAtRest
    /\ SetupAtRest
    /\ storedEmployees = << >>
    /\ AuthAtRest

NextExpenses ==
    \/ loadExpenses
    \/ \E open \in BOOLEAN : setShowAddExpenseModal(open)
    \/ \E text \in ExpenseTitleInputs : ChangeExpenseTitle(text)
    \/ \E text \in ExpenseAmountInputs : ChangeExpenseAmount(text)
    \/ \E category \in ExpenseCategoryInputs : ChangeExpenseCategory(category)
    \/ resetExpenseForm
    \/ handleSaveExpense
    \/ \E id \in ExpenseIds : handleDeleteExpense(id)
    \/ \E id \in ExpenseIds : handleApproveExpense(id)
    \/ \E id \in ExpenseIds : handleRejectExpense(id)

SpecExpenses == InitExpenses /\ [][NextExpenses]_vars

(***************************************************************************)
(* C9: the category, is_anomaly and ai_confidence of an expense are fixed  *)
(* when handleSaveExpense creates it: no step of save, approve, reject or  *)
(* delete changes those three fields of an expense that stays stored.      *)
(***************************************************************************)
C9_FrozenStep ==
    \A i \in 1..Len(storedExpenses) : \A j \in 1..Len(storedExpenses') :
        storedExpenses'[j].id = storedExpenses[i].id =>
            /\ storedExpenses'[j].category = storedExpenses[i].category
            /\ storedExpenses'[j].is_anomaly = storedExpenses[i].is_anomaly
            /\ storedExpenses'[j].ai_confidence = storedExpenses[i].ai_confidence

C9_FieldsFrozen == [][C9_FrozenStep]_vars

\* an expense flagged as an anomaly and categorized by the service has been
\* approved, next to one entered with a category that has been rejected
C9_Witness ==
    /\ \E i \in 1..Len(storedExpenses) :
          /\ storedExpenses[i].is_anomaly
          /\ storedExpenses[i].ai_confidence # Undefined
          /\ storedExpenses[i].status = "approved"
    /\ \E i \in 1..Len(storedExpenses) :
          /\ storedExpenses[i].ai_confidence = Undefined
          /\ storedExpenses[i].status = "rejected"

(***************************************************************************)
(* analyzeSpendingPatterns.  A change in percent is an exact fraction,     *)
(* NaN (0 / 0), or an infinity, written as a fraction over 0.              *)
(***************************************************************************)
PosInfinity == [nan |-> FALSE, numer |-> 1, denom |-> 0]
NegInfinity == [nan |-> FALSE, numer |-> -1, denom |-> 0]
IsFinite(x) == ~x.nan /\ x.denom # 0

\* new Date(e.expense_date) >= cutoffDate, cutoffDate being monthsToAnalyze
\* months before now (dates are compared by their month)
RecentExpenses(expenses, monthsToAnalyze, today) ==
    SelectSeq(expenses, LAMBDA e : e.expense_date >= today - monthsToAnalyze)

\* Object.keys(categoryTotals): the categories in the order the forEach
\* first meets them
RECURSIVE CategoryKeys(_, _, _)
CategoryKeys(recentExpenses, i, acc) ==
    IF i > Len(recentExpenses) THEN acc
    ELSE IF \E j \in 1..Len(acc) : acc[j] = recentExpenses[i].category
         THEN CategoryKeys(recentExpenses, i + 1, acc)
         ELSE CategoryKeys(recentExpenses, i + 1, Append(acc, recentExpenses[i].category))

\* the division by olderAvg, with the average of the older half being 0
DividedByZero(recentSum) ==
    IF recentSum > 0 THEN PosInfinity
    ELSE IF recentSum < 0 THEN NegInfinity
    ELSE NaN

\* changePercent = ((recentAvg - olderAvg) / olderAvg) * 100 for the amounts
\* of a category with at least 3 of them
ChangePercent(amounts) ==
    LET half == Len(amounts) \div 2
        r == half
        o == Len(amounts) - half
        R == SumSeq(SubSeq(amounts, 1, half), 1)
        O == SumSeq(SubSeq(amounts, half + 1, Len(amounts)), 1)
        n == (R * o - O * r) * 100
        d == O * r
    IN  IF O = 0 THEN DividedByZero(R)
        ELSE IF d > 0 THEN Num(n, d) ELSE Num(-n, -d)

\* a variant that also accepts a change of exactly the limit
AbsAtLeast(x, limit) ==
    /\ ~x.nan
    /\ x.denom = 0 \/ Abs(x.numer) >= limit * x.denom

\* Math.abs(changePercent) > limit and changePercent > 0
AbsAbove(x, limit) ==
    /\ ~x.nan
    /\ x.denom = 0 \/ Abs(x.numer) > limit * x.denom
IsPositive(x) == ~x.nan /\ x.numer > 0

\* Math.round on a change: an infinity stays what it is
RoundChange(x) == IF IsFinite(x) THEN MathRound(x) ELSE x

\* the fewest data points of a category that is analysed
MinDataPoints == 3

\* the pattern the forEach pushes for a category, if any
CategoryPattern(category, amounts) ==
    IF Len(amounts) < MinDataPoints THEN Undefined
    ELSE LET changePercent == ChangePercent(amounts)
         IN  IF AbsAbove(changePercent, 20)
             THEN Some([ type |-> IF IsPositive(changePercent) THEN "increase" ELSE "decrease",
                         category |-> category,
                         change |-> [ sign |-> IF IsPositive(changePercent) THEN "+" ELSE "",
                                      percent |-> RoundChange(changePercent) ],
                         priority |-> IF AbsAbove(changePercent, 40) THEN "high" ELSE "medium" ])
             ELSE Undefined

\* the patterns array after the forEach over the first k categories
RECURSIVE ChangePatterns(_, _, _)
ChangePatterns(recentExpenses, keys, k) ==
    IF k = 0 THEN << >>
    ELSE LET before == ChangePatterns(recentExpenses, keys, k - 1)
             pattern == CategoryPattern(keys[k], CategoryAmounts(keys[k], recentExpenses))
         IN  IF pattern = Undefined THEN before
             ELSE Append(before, CHOOSE p \in pattern : TRUE)

\* the categories a stable pattern may name
WithoutPattern(recentExpenses, patterns, cat) ==
    ~\E i \in 1..Len(patterns) : patterns[i].category = cat

\* a variant that names the last of the stable categories
LastStableCategory(stableCategories) == stableCategories[Len(stableCategories)]

\* stableCategories[0]
FirstStableCategory(stableCategories) == stableCategories[1]

StablePattern(category) ==
    [ type |-> "stable", category |-> category,
      change |-> [ sign |-> "+-", percent |-> Whole(5) ], priority |-> "low" ]

analyzeSpendingPatterns(expenses, monthsToAnalyze, today) ==
    LET recentExpenses == RecentExpenses(expenses, monthsToAnalyze, today)
        keys == CategoryKeys(recentExpenses, 1, << >>)
        patterns == ChangePatterns(recentExpenses, keys, Len(keys))
        stableCategories ==
            SelectSeq(keys, LAMBDA cat : WithoutPattern(recentExpenses, patterns, cat))
    IN  IF Len(stableCategories) > 0
        THEN Append(patterns, StablePattern(FirstStableCategory(stableCategories)))
        ELSE patterns

\* ---- the calls
MaxPatternExpenses == 4
PatternCategories == {"rent", "travel"}
PatternAmounts == {0, 100, 130}
PatternMonths == 6
PatternDates(today) == {today - 1, today - PatternMonths - 1}

PatternExpense(category, amount, date) ==
    MkExpense("exp", << >>, << >>, amount, category, date, "approved", FALSE, Undefined)

PatternHistories ==
    UNION { [1..k -> { PatternExpense(c, a, d) :
                         c \in PatternCategories, a \in PatternAmounts,
                         d \in PatternDates(SampleNow) }] :
            k \in 0..MaxPatternExpenses }

InitPatterns ==
    /\ pc = "ready"
    /\ args \in [expenses : PatternHistories, monthsToAnalyze : {PatternMonths}]
    /\ ret = NoRet
    /\ now = SampleNow
    /\ PagesAtRest

CallAnalyzeSpendingPatterns ==
    /\ pc = "ready"
    /\ pc' = "done"
    /\ ret' = [kind |-> "patterns",
               patterns |-> analyzeSpendingPatterns(args.expenses, args.monthsToAnalyze, now)]
    /\ UNCHANGED <<args, now, pageVars>>

NextPatterns == CallAnalyzeSpendingPatterns

SpecPatterns == InitPatterns /\ [][NextPatterns]_vars

(***************************************************************************)
(* C12: analyzeSpendingPatterns never emits a pattern computed from a      *)
(* non-finite change (NaN or an infinity): a category whose older half     *)
(* averages 0 is skipped or treated as no change.                          *)
(***************************************************************************)
C12_NoNonFiniteChange ==
    pc = "done" =>
        \A i \in 1..Len(ret.patterns) : IsFinite(ret.patterns[i].change.percent)

(***************************************************************************)
(* C19: a pattern of type stable is emitted only for a category that has   *)
(* at least 3 data points inside the analysis window.                      *)
(***************************************************************************)
C19_StableNeedsThreePoints ==
    pc = "done" =>
        \A i \in 1..Len(ret.patterns) :
            ret.patterns[i].type = "stable" =>
                Len(CategoryAmounts(ret.patterns[i].category,
                                    RecentExpenses(args.expenses, args.monthsToAnalyze, now)))
                    >= 3

(***************************************************************************)
(* C20: the output holds at most one pattern of type stable; when present  *)
(* it is the last element, has change +-5% and priority low, and its       *)
(* category is the first category, in order of first occurrence, that      *)
(* produced no increase/decrease pattern; no category appears in more than *)
(* one pattern.  The claim orders the categories by their first occurrence *)
(* in the input; the amended claim orders them by their first occurrence   *)
(* among the expenses of the input that lie inside the analysis window.    *)
(***************************************************************************)
\* where a category first occurs in a list of expenses (0: nowhere)
FirstOccurrence(list, cat) ==
    IF \E i \in 1..Len(list) : list[i].category = cat
    THEN CHOOSE i \in 1..Len(list) :
            /\ list[i].category = cat
            /\ \A j \in 1..(i - 1) : list[j].category # cat
    ELSE 0

\* cat got no increase/decrease pattern in the result
C20_NoChangePattern(cat) ==
    ~\E i \in 1..Len(ret.patterns) :
        ret.patterns[i].type # "stable" /\ ret.patterns[i].category = cat

\* the claim, the categories being ordered by their first occurrence in list
C20_StableShape(list) ==
    /\ Cardinality({i \in 1..Len(ret.patterns) : ret.patterns[i].type = "stable"}) <= 1
    /\ \A i \in 1..Len(ret.patterns) :
          ret.patterns[i].type = "stable" =>
              /\ i = Len(ret.patterns)
              /\ ret.patterns[i].change = [sign |-> "+-", percent |-> Whole(5)]
              /\ ret.patterns[i].priority = "low"
              /\ C20_NoChangePattern(ret.patterns[i].category)
              /\ FirstOccurrence(list, ret.patterns[i].category) > 0
              /\ \A k \in 1..Len(list) :
                    C20_NoChangePattern(list[k].category) =>
                        FirstOccurrence(list, ret.patterns[i].category) <= k
    /\ \A i, j \in 1..Len(ret.patterns) :
          ret.patterns[i].category = ret.patterns[j].category => i = j

C20_StableFirstInInput == pc = "done" => C20_StableShape(args.expenses)

C20_StableFirstInWindow ==
    pc = "done" =>
        C20_StableShape(RecentExpenses(args.expenses, args.monthsToAnalyze, now))

\* an increase or decrease pattern is followed by the stable pattern of a
\* second category
C20_Witness ==
    /\ pc = "done"
    /\ Len(ret.patterns) = 2
    /\ ret.patterns[1].type # "stable"
    /\ ret.patterns[2].type = "stable"

(***************************************************************************)
(* C13: calculateHealthScore computes expense = max(0, 40 - 15 x           *)
(* anomalyRate - 10 x pendingRate), the rates over all expenses with       *)
(* denominator max(count, 1), payroll = max(0, 30 - 5 x pendingPayroll),   *)
(* budget = max(0, 30 - 10 x number of budgets whose current-month         *)
(* category spend exceeds monthly_limit), and overall_score = (expense +   *)
(* payroll + budget) / 10 rounded to one decimal; no expenses, no budgets  *)
(* and no pending payroll give overall_score 10.0 and grade A.             *)
(***************************************************************************)
\* the spend of the current month in a category
C13_MonthSpend(category) ==
    LET idx == {i \in 1..Len(args.expenses) :
                   /\ args.expenses[i].expense_date = now
                   /\ args.expenses[i].category = category}
    IN  SetSum([i \in idx |-> args.expenses[i].amount], idx)

\* (expense + payroll + budget) * n of the claim, n = max(count, 1)
C13_TotalN ==
    LET n == Max(Len(args.expenses), 1)
        anomalies == Cardinality({i \in 1..Len(args.expenses) : args.expenses[i].is_anomaly})
        pendings == Cardinality({i \in 1..Len(args.expenses) :
                                    args.expenses[i].status = "pending"})
        exceeded == Cardinality({i \in 1..Len(args.budgets) :
                                    C13_MonthSpend(args.budgets[i].category)
                                        > args.budgets[i].monthly_limit})
        expenseN == Max(0, 40 * n - 15 * anomalies - 10 * pendings)
        payroll == Max(0, 30 - 5 * args.pendingPayroll)
        budget == Max(0, 30 - 10 * exceeded)
    IN  expenseN + (payroll + budget) * n

\* overall_score, in tenths, is a nearest tenth of total / 10
C13_HealthFormula ==
    pc = "done" =>
        LET n == Max(Len(args.expenses), 1)
        IN  /\ 2 * Abs(ret.overall_score * n - C13_TotalN) <= n
            /\ ( args.expenses = << >> /\ args.budgets = << >> /\ args.pendingPayroll = 0 ) =>
                  ( ret.overall_score = 100 /\ ret.grade = "A" )

\* a call in which each of the three components loses points
C13_Witness ==
    /\ pc = "done"
    /\ \E i \in 1..Len(args.expenses) : args.expenses[i].is_anomaly
    /\ \E i \in 1..Len(args.expenses) : args.expenses[i].status = "pending"
    /\ Len(args.expenses) = 7
    /\ args.pendingPayroll = 1
    /\ \E i \in 1..Len(args.budgets) : args.budgets[i].monthly_limit < 100
    /\ ret.overall_score < 100

(***************************************************************************)
(* C18: calculateHealthScore takes 10 off the budget component only for    *)
(* budgets with is_active = true whose current-month category spend        *)
(* exceeds monthly_limit: an inactive budget never lowers the budget       *)
(* component.                                                              *)
(***************************************************************************)
\* max(0, 30 - 10 x the active budgets that are exceeded)
C18_ActiveBudgetScore ==
    Max(0, 30 - 10 * Cardinality({i \in 1..Len(args.budgets) :
                                     /\ args.budgets[i].is_active
                                     /\ C13_MonthSpend(args.budgets[i].category)
                                            > args.budgets[i].monthly_limit}))

\* budget_adherence, in tenths, is a nearest tenth of that component / 3
C18_InactiveBudgetsIgnored ==
    pc = "done" => 2 * Abs(3 * ret.budget_adherence - 10 * C18_ActiveBudgetScore) <= 3

(***************************************************************************)
(* The same call of a core function made twice, the date moving on in      *)
(* between.                                                                *)
(***************************************************************************)
\* the months that may pass between the two calls
MaxMonthsLater == 1

\* the call args describes, made at date today
CoreCall(a, today) ==
    CASE a.fn = "categorizeExpense" ->
            [kind |-> "category", result |-> categorizeExpense(a.title, a.description, a.amount)]
      [] a.fn = "detectAnomaly" ->
            [kind |-> "anomaly", flag |-> detectAnomaly(a.amount, a.category, a.history)]
      [] a.fn = "predictCashFlow" ->
            [kind |-> "forecast",
             predictions |-> predictCashFlow(a.history, a.monthlyBudget, a.monthsAhead, today)]
      [] a.fn = "analyzeSpendingPatterns" ->
            [kind |-> "patterns",
             patterns |-> analyzeSpendingPatterns(a.expenses, a.monthsToAnalyze, today)]
      [] a.fn = "calculateHealthScore" ->
            [kind |-> "health",
             insight |-> calculateHealthScore(a.expenses, a.budgets, a.pendingPayroll,
                                              today, a.tieUp)]

\* the expenses the repeated calls are given: dated this month, last month,
\* and in the month the analysis window of this month starts with
RepeatExpenses ==
    { << >> } \cup
    { << PatternExpense("rent", a, d) >> :
         a \in {100, 5000}, d \in {SampleNow, SampleNow - 1, SampleNow - PatternMonths} }

\* the rounding of a halfway value is a property of the doubles of a call:
\* the same in both calls
RepeatInputs ==
    [ fn : {"categorizeExpense"}, title : SampleTitles, description : {<< >>},
      amount : SampleAmounts ]
    \cup [ fn : {"detectAnomaly"}, amount : CandidateAmounts, category : {"rent"},
           history : RepeatExpenses ]
    \cup [ fn : {"predictCashFlow"}, history : RepeatExpenses \ { << >> },
           monthlyBudget : ForecastBudgets, monthsAhead : 0..1 ]
    \cup [ fn : {"analyzeSpendingPatterns"}, expenses : RepeatExpenses,
           monthsToAnalyze : {PatternMonths} ]
    \cup [ fn : {"calculateHealthScore"}, expenses : RepeatExpenses,
           budgets : { << >>, << MkBudget("b", "rent", 50, TRUE) >> },
           pendingPayroll : {0, 1}, tieUp : BOOLEAN ]

InitRepeat ==
    /\ pc = "ready"
    /\ args \in RepeatInputs
    /\ ret = [first |-> NoRet, second |-> NoRet]
    /\ now = SampleNow
    /\ PagesAtRest

\* a variant in which the health score consumes the list it is given
CallFirstConsuming ==
    /\ pc = "ready"
    /\ pc' = "called"
    /\ ret' = [ret EXCEPT !.first = CoreCall(args, now)]
    /\ args' = IF args.fn = "calculateHealthScore" THEN [args EXCEPT !.expenses = << >>]
               ELSE args
    /\ UNCHANGED <<now, pageVars>>

\* the first call: the functions only read their arguments (filter, map,
\* reduce, slice, forEach) and push onto arrays of their own
CallFirst ==
    /\ pc = "ready"
    /\ pc' = "called"
    /\ ret' = [ret EXCEPT !.first = CoreCall(args, now)]
    /\ UNCHANGED <<args, now, pageVars>>

\* a month ends
MonthPasses ==
    /\ pc = "called"
    /\ now < SampleNow + MaxMonthsLater
    /\ now' = now + 1
    /\ UNCHANGED <<pc, args, ret, pageVars>>

CallAgain ==
    /\ pc = "called"
    /\ pc' = "done"
    /\ ret' = [ret EXCEPT !.second = CoreCall(args, now)]
    /\ UNCHANGED <<args, now, pageVars>>

NextRepeat == CallFirst \/ MonthPasses \/ CallAgain

SpecRepeat == InitRepeat /\ [][NextRepeat]_vars

(***************************************************************************)
(* C14: each core function depends on its explicit arguments only: two     *)
(* calls with identical arguments return identical results, whatever the   *)
(* current date is at each call.                                           *)
(***************************************************************************)
C14_SameArgsSameResult == pc = "done" => ret.first = ret.second

C16_NoNegativeStored ==
    \A i \in 1..Len(storedPayroll) :
        /\ storedPayroll[i].overtime_hours >= 0
        /\ storedPayroll[i].bonus >= 0
        /\ storedPayroll[i].allowances >= 0
        /\ storedPayroll[i].paid_leaves >= 0
        /\ storedPayroll[i].unpaid_leaves >= 0

(***************************************************************************)
(* C17: handleSaveExpense stores an expense only when the title is         *)
(* non-empty and the entered amount is a number greater than 0; for any    *)
(* other form content it leaves the stored and the displayed expense lists *)
(* unchanged, so every expense created through the form has a numeric      *)
(* amount > 0.                                                             *)
(***************************************************************************)
\* the form holds a title and the text of a number above 0
C17_ValidForm ==
    /\ Len(expenseForm.title) > 0
    /\ Len(expenseForm.amount) > 0
    /\ \A i \in 1..Len(expenseForm.amount) : IsDigit(expenseForm.amount[i])
    /\ \E i \in 1..Len(expenseForm.amount) : expenseForm.amount[i] # "0"

C17_SaveStep ==
    /\ (\E j \in 1..Len(storedExpenses') :
           \A i \in 1..Len(storedExpenses) : storedExpenses[i].id # storedExpenses'[j].id)
          => C17_ValidForm
    /\ (handleSaveExpense /\ ~C17_ValidForm)
          => UNCHANGED <<storedExpenses, pageExpenses>>
    /\ \A j \in 1..Len(storedExpenses') : storedExpenses'[j].amount > 0

MaxChangeExpenses == 5
ChangeAmounts == {0, 100, 120, 130, 140}

ChangeExpenses ==
    { PatternExpense("rent", a, SampleNow - 1) : a \in ChangeAmounts }
      \cup { PatternExpense("rent", 100, SampleNow - PatternMonths - 1),
             PatternExpense("travel", 100, SampleNow - 1) }

ChangeHistories == UNION { [1..k -> ChangeExpenses] : k \in 0..MaxChangeExpenses }

InitChanges ==
    /\ pc = "ready"
    /\ args \in [expenses : ChangeHistories, monthsToAnalyze : {PatternMonths}]
    /\ ret = NoRet
    /\ now = SampleNow
    /\ PagesAtRest

SpecChanges == InitChanges /\ [][NextPatterns]_vars

(***************************************************************************)
(* C21: for each category with at least 3 in-window amounts (and an older  *)
(* half that does not sum to 0, so that changePercent is a number),        *)
(* analyzeSpendingPatterns emits an increase/decrease pattern exactly when *)
(* |changePercent| > 20, changePercent = (recentAvg - olderAvg) / olderAvg *)
(* x 100 with recent the first floor(n/2) amounts in input order and older *)
(* the rest; the type is increase iff changePercent > 0, the priority high *)
(* iff |changePercent| > 40 and medium otherwise; a category with fewer    *)
(* than 3 amounts never gets an increase/decrease pattern.                 *)
(***************************************************************************)
\* the in-window amounts of a category, in input order
C21_Amounts(cat) ==
    LET inWindow == SelectSeq(args.expenses,
                       LAMBDA e : e.category = cat
                                  /\ e.expense_date >= now - args.monthsToAnalyze)
    IN  [i \in 1..Len(inWindow) |-> inWindow[i].amount]

\* the positions of the increase/decrease patterns of a category
C21_ChangeEntries(cat) ==
    { i \in 1..Len(ret.patterns) :
        ret.patterns[i].category = cat /\ ret.patterns[i].type \in {"increase", "decrease"} }

\* (recentSum / r - olderSum / o) / (olderSum / o) * 100 against a limit,
\* cross-multiplied
C21_Expected(cat) ==
    LET amounts == C21_Amounts(cat)
        r == Len(amounts) \div 2
        o == Len(amounts) - r
        recentSum == SetSum([i \in 1..r |-> amounts[i]], 1..r)
        olderSum == SetSum([i \in 1..o |-> amounts[r + i]], 1..o)
        diff == recentSum * o - olderSum * r
        magnitude == IF diff < 0 THEN -diff ELSE diff
    IN  [ defined |-> olderSum # 0,
          above20 |-> 100 * magnitude > 20 * olderSum * r,
          above40 |-> 100 * magnitude > 40 * olderSum * r,
          positive |-> diff > 0 ]

C21_ChangeRule ==
    pc = "done" =>
        \A cat \in { args.expenses[i].category : i \in 1..Len(args.expenses) } :
            IF Len(C21_Amounts(cat)) < 3 THEN C21_ChangeEntries(cat) = {}
            ELSE LET x == C21_Expected(cat)
                 IN  x.defined =>
                       IF x.above20
                       THEN /\ Cardinality(C21_ChangeEntries(cat)) = 1
                            /\ \A i \in C21_ChangeEntries(cat) :
                                 /\ ret.patterns[i].type = "increase" <=> x.positive
                                 /\ ret.patterns[i].priority =
                                      IF x.above40 THEN "high" ELSE "medium"
                       ELSE C21_ChangeEntries(cat) = {}

\* a medium increase of rent next to a travel category of too few points
C21_Witness ==
    /\ pc = "done"
    /\ Len(C21_Amounts("rent")) >= 3
    /\ Len(C21_Amounts("travel")) \in 1..2
    /\ \E i \in C21_ChangeEntries("rent") :
          ret.patterns[i].type = "increase" /\ ret.patterns[i].priority = "medium"

(***************************************************************************)
(* Calls of predictCashFlow on histories of up to three months, with a     *)
(* budget that a prediction can exceed by less than a half.                *)
(***************************************************************************)
MaxTrendHistory == 4
TrendAmounts == {100, 200}
TrendDates == {SampleNow, SampleNow - 1, SampleNow - 2}
TrendBudgets == {133}

TrendHistories ==
    UNION { [1..k -> {ForecastExpense(a, d) : a \in TrendAmounts, d \in TrendDates}] :
            k \in 0..MaxTrendHistory }

InitTrend ==
    /\ pc = "ready"
    /\ args \in [history : TrendHistories, monthlyBudget : TrendBudgets,
                 monthsAhead : 0..MaxMonthsAhead]
    /\ ret = NoRet
    /\ now = SampleNow
    /\ PagesAtRest

SpecTrend == InitTrend /\ [][NextForecast]_vars

(***************************************************************************)
(* C22: predictCashFlow sums amounts per (year, month) bucket, takes the   *)
(* buckets in order of first occurrence in the input, computes avg = mean  *)
(* of the bucket totals and trend = (first bucket total - last bucket      *)
(* total) / bucket count (0 for a single bucket), and for each i in        *)
(* 1..monthsAhead emits predicted_expenses = round(avg + trend x i),       *)
(* budget = monthlyBudget and likely_overrun = (avg + trend x i >          *)
(* monthlyBudget), the comparison using the unrounded prediction.  Stated  *)
(* for a history with at least one expense, where the mean exists.         *)
(***************************************************************************)
\* the total of the bucket of a month
C22_BucketTotal(month) ==
    LET idx == {k \in 1..Len(args.history) : args.history[k].expense_date = month}
    IN  SetSum([k \in idx |-> args.history[k].amount], idx)

\* where each month first occurs in the input
C22_FirstIndex(month) ==
    CHOOSE k \in 1..Len(args.history) :
        /\ args.history[k].expense_date = month
        /\ \A j \in 1..(k - 1) : args.history[j].expense_date # month

\* avg + trend x i, times the number of buckets
C22_PredictedTimesCount(i) ==
    LET months == {args.history[k].expense_date : k \in 1..Len(args.history)}
        first == CHOOSE m \in months : \A o \in months : C22_FirstIndex(m) <= C22_FirstIndex(o)
        last == CHOOSE m \in months : \A o \in months : C22_FirstIndex(m) >= C22_FirstIndex(o)
        sum == SetSum([m \in months |-> C22_BucketTotal(m)], months)
    IN  IF Cardinality(months) > 1
        THEN sum + (C22_BucketTotal(first) - C22_BucketTotal(last)) * i
        ELSE sum

C22_BucketCount == Cardinality({args.history[k].expense_date : k \in 1..Len(args.history)})

C22_ForecastFormula ==
    (pc = "done" /\ args.history # << >>) =>
        /\ Len(ret.predictions) = args.monthsAhead
        /\ \A i \in 1..args.monthsAhead :
             LET p == ret.predictions[i]
                 v == C22_PredictedTimesCount(i)
                 n == C22_BucketCount
             IN  /\ ~p.predicted_expenses.nan
                 /\ p.predicted_expenses.denom = 1
                 \* the nearest integer, a half going up
                 /\ 2 * n * p.predicted_expenses.numer - n <= 2 * v
                 /\ 2 * v < 2 * n * p.predicted_expenses.numer + n
                 /\ p.budget = args.monthlyBudget
                 /\ p.likely_overrun <=> (v > args.monthlyBudget * n)

\* three buckets, a bucket of two expenses, and a prediction that exceeds
\* the budget while its rounding does not
C22_Witness ==
    /\ pc = "done"
    /\ C22_BucketCount = 3
    /\ Len(args.history) = 4
    /\ \E i \in 1..Len(ret.predictions) :
          /\ ret.predictions[i].likely_overrun
          /\ ret.predictions[i].predicted_expenses = Whole(args.monthlyBudget)

(***************************************************************************)
(* The application: start-up over the browser's storage, sign-up, log-in,  *)
(* onboarding and the employees page.                                      *)
(***************************************************************************)
\* Math.random of the mock generators, drawn as for generateMockPayroll
RandomExpenseCount(seed, monthOffset) == 5 + ((seed + monthOffset) % 6)
RandomIndex(seed, monthOffset, i) == (seed + 2 * monthOffset + i) % 6
RandomExpenseAmount(seed, monthOffset, i) ==
    100 + ((1931 * seed + 977 * monthOffset + 613 * i) % 5000)
RandomRevenue(seed, i) == 20000 + ((4999 * seed + 1733 * i) % 10000)

MockExpenseCategories ==
    <<"marketing", "software", "rent", "utilities", "travel", "office_supplies">>
MockExpenseVendors ==
    <<"Amazon Web Services", "Google Ads", "Office Landlord LLC", "Electric Company",
      "Delta Airlines", "Office Depot">>

\* the record generateMockExpenses pushes for month monthOffset and index i
MockExpenseRecord(monthOffset, i, today, seed) ==
    LET category == MockExpenseCategories[RandomIndex(seed, monthOffset, i) + 1]
        vendor == MockExpenseVendors[RandomIndex(seed + 1, monthOffset, i) + 1]
        amount == RandomExpenseAmount(seed, monthOffset, i)
    IN  MkExpense(<<"exp", monthOffset, i>>, <<vendor, today - monthOffset>>,
                  <<"Payment for", category, "services">>, amount, category,
                  today - monthOffset,
                  IF monthOffset > 0 \/ (seed + i) % 3 # 0 THEN "approved" ELSE "pending",
                  amount > 4000, Some(70 + ((seed + 7 * i) % 30)))

\* the expenses of months 0..monthOffset, in push order
RECURSIVE MockExpensesUpTo(_, _, _)
MockExpensesUpTo(monthOffset, today, seed) ==
    IF monthOffset < 0 THEN << >>
    ELSE MockExpensesUpTo(monthOffset - 1, today, seed)
           \o [ k \in 1..RandomExpenseCount(seed, monthOffset) |->
                  MockExpenseRecord(monthOffset, k - 1, today, seed) ]

generateMockExpenses(today, seed) == MockExpensesUpTo(5, today, seed)

generateMockBudgets ==
    << MkBudget("1", "marketing", 5000, TRUE),
       MkBudget("2", "software", 3000, TRUE),
       MkBudget("3", "rent", 3000, TRUE),
       MkBudget("4", "utilities", 500, TRUE),
       MkBudget("5", "payroll", 8000, TRUE) >>

\* a Revenue (lib/types)
MkRevenue(id, date, amount, notes) ==
    [ id |-> id, month |-> MonthOf(date), year |-> YearOf(date), amount |-> amount,
      source |-> "operations", notes |-> notes ]

generateMockRevenue(today, seed) ==
    [ k \in 1..6 |-> MkRevenue(<<"rev", k - 1>>, today - (k - 1),
                               RandomRevenue(seed, k - 1), "Monthly revenue") ]

\* initializeMockData: each list is written where its key holds nothing
initializeMockData(seed) ==
    /\ storedExpenses' = IF "goji_expenses" \in storedKeys THEN storedExpenses
                         ELSE generateMockExpenses(now, seed)
    /\ storedEmployees' = IF "goji_employees" \in storedKeys THEN storedEmployees
                          ELSE generateMockEmployees
    /\ storedBudgets' = IF "goji_budgets" \in storedKeys THEN storedBudgets
                        ELSE generateMockBudgets
    /\ storedRevenue' = IF "goji_revenue" \in storedKeys THEN storedRevenue
                        ELSE generateMockRevenue(now, seed)
    /\ storedPayroll' = IF "goji_payroll" \in storedKeys THEN storedPayroll
                        ELSE generateMockPayroll(now, seed)
    /\ storedKeys' = storedKeys \cup DataKeys

\* the effect of AuthProvider: the session found in the storage
RestoreSession ==
    /\ user' = IF storedToken # Undefined /\ storedCurrentUser # Undefined
               THEN storedCurrentUser ELSE Undefined
    /\ isOnboarded' = (storedToken # Undefined /\ storedCurrentUser # Undefined
                       /\ storedOnboarding)

\* the application is loaded in the browser (again): fresh component state,
\* the effects of AppRoutes and of AuthProvider; calls of the page that was
\* left never resolve
AppStart ==
    /\ \E seed \in 0..MaxSeed : initializeMockData(seed)
    /\ RestoreSession
    /\ calls' = {}
    /\ employeeList' = << >>
    /\ UNCHANGED <<coreVars, clock, payrolls, employees, payrollForm, selectedEmployee,
                   showPayrollModal, pageExpenses, expenseForm, showExpenseModal, ocrVars,
                   storedSettings, storedUsers, storedToken, storedCurrentUser,
                   storedOnboarding, completedBy>>

\* ---- AuthContext
\* a User (lib/types)
MkUser(id, data) == [ id |-> id, username |-> data.username, email |-> data.email ]

\* the calls that may be suspended at a time, and a name for a new one
MaxCalls == 2
NextCallId == CHOOSE i \in 1..MaxCalls : \A c \in calls : c.id # i

\* what is typed into the sign-up and the log-in form
SignupInputs ==
    { [username |-> "ann", email |-> "ann@goji.com"],
      [username |-> "bob", email |-> "bob@goji.com"],
      [username |-> "bob", email |-> "ann@goji.com"] }
LoginInputs == {"ann", "bob@goji.com"}

\* signup(data) up to its await: the call is suspended for its delay
signup(data) ==
    /\ Cardinality(calls) < MaxCalls
    /\ calls' = calls \cup {[id |-> NextCallId, kind |-> "signup", data |-> data]}
    /\ UNCHANGED <<coreVars, payVars, expVars, ocrVars, setupVars, storedUsers, storedToken,
                   storedCurrentUser, storedOnboarding, user, isOnboarded, completedBy>>

\* a variant of the check that looks at the username only
UsernameTaken(existingUsers, data) ==
    \E i \in 1..Len(existingUsers) : existingUsers[i].username = data.username

\* existingUsers.some(u => u.username === data.username), then the same for
\* the email
UsernameOrEmailTaken(existingUsers, data) ==
    \/ \E i \in 1..Len(existingUsers) : existingUsers[i].username = data.username
    \/ \E i \in 1..Len(existingUsers) : existingUsers[i].email = data.email

\* signup from its await to its return, run without interruption
SignupResume(call) ==
    /\ call \in calls
    /\ call.kind = "signup"
    /\ LET existingUsers == storedUsers
           taken == UsernameOrEmailTaken(existingUsers, call.data)
           newUser == MkUser(Len(existingUsers) + 1, call.data)
       IN  /\ storedUsers' = IF taken THEN storedUsers ELSE Append(existingUsers, newUser)
           /\ ret' = [kind |-> "signup", success |-> ~taken]
    /\ calls' = calls \ {call}
    /\ UNCHANGED <<pc, args, now, payVars, expVars, ocrVars, setupVars, storedToken,
                   storedCurrentUser, storedOnboarding, user, isOnboarded, completedBy>>

\* login(username, password) up to its await
login(username) ==
    /\ Cardinality(calls) < MaxCalls
    /\ calls' = calls \cup {[id |-> NextCallId, kind |-> "login", data |-> username]}
    /\ UNCHANGED <<coreVars, payVars, expVars, ocrVars, setupVars, storedUsers, storedToken,
                   storedCurrentUser, storedOnboarding, user, isOnboarded, completedBy>>

\* login from its await to its return (any password is accepted)
LoginResume(call) ==
    /\ call \in calls
    /\ call.kind = "login"
    /\ LET found == { i \in 1..Len(storedUsers) :
                        \/ storedUsers[i].username = call.data
                        \/ storedUsers[i].email = call.data }
       IN  IF found = {}
           THEN /\ ret' = [kind |-> "login", success |-> FALSE]
                /\ UNCHANGED <<storedToken, storedCurrentUser, user, isOnboarded>>
           ELSE LET foundUser == storedUsers[CHOOSE i \in found : \A j \in found : i <= j]
                IN  /\ storedToken' = Some(foundUser.id)
                    /\ storedCurrentUser' = Some(foundUser)
                    /\ user' = Some(foundUser)
                    /\ isOnboarded' = storedOnboarding
                    /\ ret' = [kind |-> "login", success |-> TRUE]
    /\ calls' = calls \ {call}
    /\ UNCHANGED <<pc, args, now, payVars, expVars, ocrVars, setupVars, storedUsers,
                   storedOnboarding, completedBy>>

\* logout, from the menu of a page
logout ==
    /\ user # Undefined
    /\ storedToken' = Undefined
    /\ storedCurrentUser' = Undefined
    /\ user' = Undefined
    /\ UNCHANGED <<coreVars, payVars, expVars, ocrVars, setupVars, storedUsers,
                   storedOnboarding, isOnboarded, calls, completedBy>>

\* completeOnboarding, with a note of who ran it
completeOnboarding ==
    /\ storedOnboarding' = TRUE
    /\ isOnboarded' = TRUE
    /\ completedBy' = completedBy \cup { u.id : u \in user }

\* ---- the routes
\* ProtectedRoute renders its page
ProtectedRendered == user # Undefined /\ isOnboarded

\* OnboardingRoute renders the onboarding page
OnboardingRendered == user # Undefined /\ ~isOnboarded

\* ---- OnboardingPage
\* a truthy number: neither 0 nor NaN
Truthy(x) == ~x.nan /\ x.numer # 0

\* Object.entries(budgetData.categories), in key order
OnboardingCategories == <<"marketing", "software", "rent", "utilities", "payroll">>

\* what the steps of the onboarding have collected
NoCategoryLimits == [c \in {"marketing", "software", "rent", "utilities", "payroll"} |-> << >>]
OnboardingInputs ==
    [ total_budget : { <<"1","2","0","0","0","0">> },
      monthly_budget_limit : { << >>, <<"9","0","0","0">> },
      monthly_revenue : { << >>, <<"3","0","0","0","0">> },
      categories : { NoCategoryLimits,
                     [NoCategoryLimits EXCEPT !["marketing"] = <<"4","0","0","0">>],
                     [NoCategoryLimits EXCEPT !["marketing"] = <<"4","0","0","0">>,
                                              !["rent"] = <<"2","5","0","0">>] },
      monthly_salary : { << >>, <<"5","0","0","0">> } ]

\* the settings handleComplete saves
OnboardingSettings(form) ==
    LET total == parseFloat(form.total_budget)
        limit == parseFloat(form.monthly_budget_limit)
        twelfth == IF total.nan THEN NaN ELSE Over(total, 12)
    IN  [ id |-> "1", currency |-> "USD", default_working_days |-> 22,
          total_budget |-> IF Truthy(total) THEN total ELSE Whole(200000),
          monthly_budget_limit |-> IF Truthy(limit) THEN limit
                                   ELSE IF Truthy(twelfth) THEN twelfth
                                   ELSE Whole(20000) ]

\* the budgets the forEach pushes for the first k categories
RECURSIVE OnboardingBudgets(_, _)
OnboardingBudgets(form, k) ==
    IF k = 0 THEN << >>
    ELSE LET before == OnboardingBudgets(form, k - 1)
             category == OnboardingCategories[k]
             limit == form.categories[category]
         IN  IF limit # << >> /\ NumGt(parseFloat(limit), Whole(0))
             THEN Append(before, MkBudget(k, category, parseFloat(limit).numer, TRUE))
             ELSE before

\* a variant that keeps the budgets the storage holds
BudgetsAppended(existing, budgets) == existing \o budgets

\* setStorageData(STORAGE_KEYS.BUDGETS, budgets)
BudgetsReplaced(existing, budgets) == budgets

\* handleComplete, from the last step of the onboarding page
handleComplete(form) ==
    /\ OnboardingRendered
    /\ storedSettings' = Some(OnboardingSettings(form))
    /\ storedRevenue' =
         IF form.monthly_revenue # << >> /\ NumGt(parseFloat(form.monthly_revenue), Whole(0))
         THEN << MkRevenue("1", now, parseFloat(form.monthly_revenue).numer, "Initial setup") >>
         ELSE storedRevenue
    /\ LET budgets == OnboardingBudgets(form, Len(OnboardingCategories))
       IN  storedBudgets' = IF Len(budgets) > 0 THEN BudgetsReplaced(storedBudgets, budgets)
                            ELSE storedBudgets
    /\ storedEmployees' =
         IF form.monthly_salary # << >>
         THEN LET employee == MkEmployee("1", "EMP001",
                                         parseFloat(form.monthly_salary).numer, TRUE)
                  existingEmployees == storedEmployees
              IN  Append(existingEmployees, employee)
         ELSE storedEmployees
    /\ storedKeys' = storedKeys
         \cup (IF form.monthly_revenue # << >>
                  /\ NumGt(parseFloat(form.monthly_revenue), Whole(0))
               THEN {"goji_revenue"} ELSE {})
         \cup (IF Len(OnboardingBudgets(form, Len(OnboardingCategories))) > 0
               THEN {"goji_budgets"} ELSE {})
         \cup (IF form.monthly_salary # << >> THEN {"goji_employees"} ELSE {})
    /\ completeOnboarding
    /\ UNCHANGED <<coreVars, payVars, expVars, ocrVars, employeeList, storedUsers,
                   storedToken, storedCurrentUser, user, calls>>

\* ---- EmployeesPage
\* the page mounts (again): loadEmployees
loadEmployees ==
    /\ ProtectedRendered
    /\ employeeList' = storedEmployees
    /\ UNCHANGED <<coreVars, payVars, expVars, ocrVars, authVars, storedKeys,
                   storedEmployees, storedBudgets, storedRevenue, storedSettings>>

\* what is typed into the Add Employee dialog (employee id, designation and
\* salary are required)
EmployeeInputs ==
    { [employee_id |-> "EMP010", designation |-> "Analyst", base_salary |-> <<"4","0","0","0">>],
      [employee_id |-> "EMP010", designation |-> "", base_salary |-> <<"4","0","0","0">>] }

\* handleSaveEmployee: an incomplete form raises a toast and changes nothing
handleSaveEmployee(form) ==
    /\ ProtectedRendered
    /\ IF form.employee_id = "" \/ form.designation = "" \/ form.base_salary = << >>
       THEN UNCHANGED vars
       ELSE /\ clock < MaxClock
            /\ LET newEmployee == MkEmployee("emp-" \o ToString(clock + 1), form.employee_id,
                                             parseFloat(form.base_salary).numer, TRUE)
                   allEmployees == Append(employeeList, newEmployee)
               IN  /\ storedEmployees' = allEmployees
                   /\ employeeList' = allEmployees
            /\ storedKeys' = storedKeys \cup {"goji_employees"}
            /\ clock' = clock + 1
            /\ UNCHANGED <<coreVars, expVars, ocrVars, authVars, storedPayroll, payrolls,
                           employees, payrollForm, selectedEmployee, showPayrollModal,
                           storedBudgets, storedRevenue, storedSettings>>

\* employees.filter(e => e.id !== id)
WithoutEmployee(list, id) == SelectSeq(list, LAMBDA e : e.id # id)

\* handleDeleteEmployee(id), from the delete button of a row
handleDeleteEmployee(id) ==
    /\ ProtectedRendered
    /\ \E i \in 1..Len(employeeList) : employeeList[i].id = id
    /\ LET updated == WithoutEmployee(employeeList, id)
       IN  /\ storedEmployees' = updated
           /\ employeeList' = updated
    /\ storedKeys' = storedKeys \cup {"goji_employees"}
    /\ UNCHANGED <<coreVars, payVars, expVars, ocrVars, authVars, storedBudgets,
                   storedRevenue, storedSettings>>

\* ---- the application has been loaded for the first time: the storage
\* holds the mock data, nobody has signed up
PagesUnmounted ==
    /\ payrolls = << >>
    /\ employees = << >>
    /\ payrollForm = Undefined
    /\ selectedEmployee = Undefined
    /\ showPayrollModal = FALSE
    /\ pageExpenses = << >>
    /\ expenseForm = Undefined
    /\ showExpenseModal = FALSE
    /\ OcrAtRest
    /\ employeeList = << >>

MockDataStored ==
    /\ \E seed \in 0..MaxSeed :
          /\ storedExpenses = generateMockExpenses(now, seed)
          /\ storedRevenue = generateMockRevenue(now, seed)
          /\ storedPayroll = generateMockPayroll(now, seed)
    /\ storedEmployees = generateMockEmployees
    /\ storedBudgets = generateMockBudgets
    /\ storedKeys = DataKeys
    /\ storedSettings = Undefined

InitApp ==
    /\ pc = "app"
    /\ args = << >>
    /\ ret = NoRet
    /\ now = SampleNow
    /\ clock = 0
    /\ PagesUnmounted
    /\ MockDataStored
    /\ AuthAtRest

\* the onboarding with every optional field left blank
SkippedOnboardingInputs ==
    { form \in OnboardingInputs :
        /\ form.monthly_budget_limit = << >>
        /\ form.monthly_revenue = << >>
        /\ form.categories = NoCategoryLimits
        /\ form.monthly_salary = << >> }

NextAuth ==
    \/ AppStart
    \/ \E data \in SignupInputs : signup(data)
    \/ \E call \in calls : SignupResume(call)
    \/ \E username \in LoginInputs : login(username)
    \/ \E call \in calls : LoginResume(call)
    \/ logout
    \/ \E form \in SkippedOnboardingInputs : handleComplete(form)

SpecAuth == InitApp /\ [][NextAuth]_vars

\* ---- sign-up calls alone, any number of them suspended at a time
NextSignup ==
    \/ \E data \in SignupInputs : signup(data)
    \/ \E call \in calls : SignupResume(call)

SpecSignup == InitApp /\ [][NextSignup]_vars

(***************************************************************************)
(* C24: for any sequence and any interleaving of concurrent signup calls   *)
(* (each suspends for its delay before it reads the user list), no two     *)
(* users of the stored list share a username, an email or an id; a signup  *)
(* whose username or email is already taken returns success = false and    *)
(* leaves the user list unchanged.                                         *)
(***************************************************************************)
\* a stored user has the username or the email of the call
C24_Taken(call) ==
    \E i \in 1..Len(storedUsers) :
        \/ storedUsers[i].username = call.data.username
        \/ storedUsers[i].email = call.data.email

C24_SignupStep ==
    /\ \A i, j \in 1..Len(storedUsers') :
          i # j => /\ storedUsers'[i].username # storedUsers'[j].username
                   /\ storedUsers'[i].email # storedUsers'[j].email
                   /\ storedUsers'[i].id # storedUsers'[j].id
    /\ \A call \in calls :
          (SignupResume(call) /\ C24_Taken(call))
             => (~ret'.success /\ storedUsers' = storedUsers)

C24_UsersUnique == [][C24_SignupStep]_vars

\* two users are stored, the last call was refused, and a call is still
\* suspended whose username was taken after it was made
C24_Witness ==
    /\ Len(storedUsers) = 2
    /\ ret.kind = "signup" /\ ~ret.success
    /\ \E call \in calls : C24_Taken(call)

(***************************************************************************)
(* C26: a protected page is rendered only for a logged-in user who has     *)
(* completed onboarding: after any sequence of signup, login,              *)
(* completeOnboarding and logout, a user who logs in without ever having   *)
(* completed onboarding is sent to /onboarding, also when another user     *)
(* completed onboarding earlier in the same browser.                       *)
(***************************************************************************)
C26_ProtectedOnlyAfterOnboarding ==
    ProtectedRendered => \A u \in user : u.id \in completedBy

\* ---- onboarding and the employees page, for a user who has signed up and
\* logged in and has not been through the onboarding
InitSetup ==
    /\ pc = "app"
    /\ args = << >>
    /\ ret = [kind |-> "login", success |-> TRUE]
    /\ now = SampleNow
    /\ clock = 0
    /\ PagesUnmounted
    /\ MockDataStored
    /\ \E data \in SignupInputs :
          /\ storedUsers = << MkUser(1, data) >>
          /\ storedToken = Some(1)
          /\ storedCurrentUser = Some(MkUser(1, data))
          /\ user = Some(MkUser(1, data))
    /\ storedOnboarding = FALSE
    /\ isOnboarded = FALSE
    /\ calls = {}
    /\ completedBy = {}

EmployeeIds == { employeeList[i].id : i \in 1..Len(employeeList) }

NextSetup ==
    \/ AppStart
    \/ \E form \in OnboardingInputs : handleComplete(form)
    \/ loadEmployees
    \/ \E form \in EmployeeInputs : handleSaveEmployee(form)
    \/ \E id \in EmployeeIds : handleDeleteEmployee(id)

SpecSetup == InitSetup /\ [][NextSetup]_vars

(***************************************************************************)
(* C23: after any sequence of application start-ups (initializeMockData)   *)
(* and onboarding completions (handleComplete), the stored budget list     *)
(* holds at most one budget per category.                                  *)
(***************************************************************************)
C23_OneBudgetPerCategory ==
    \A i, j \in 1..Len(storedBudgets) :
        i # j => storedBudgets[i].category # storedBudgets[j].category

\* the onboarding has replaced the mock budgets by two of its own
C23_Witness ==
    /\ storedOnboarding
    /\ Len(storedBudgets) = 2
    /\ storedBudgets[1].category = "marketing"
    /\ storedBudgets[2].category = "rent"

(***************************************************************************)
(* C27: after any sequence of application start-up (initializeMockData),   *)
(* onboarding completion, add-employee and delete-employee operations, no  *)
(* two stored employees share the same id, so selecting an employee for    *)
(* payroll by id is unambiguous and deleting an employee removes exactly   *)
(* one record.                                                             *)
(***************************************************************************)
C27_EmployeeIdsUnique ==
    \A i, j \in 1..Len(storedEmployees) :
        i # j => storedEmployees[i].id # storedEmployees[j].id


(***************************************************************************)
(* The receipt dialog of the expenses page: a file is selected, sent to    *)
(* extractReceiptData, and the result fills the form.                      *)
(***************************************************************************)
\* the files the user may pick: a receipt, another one, and one above 5MB
ReceiptFiles ==
    { [name |-> "receipt.png", size |-> 1, type |-> "image/png"],
      [name |-> "invoice.pdf", size |-> 2, type |-> "application/pdf"],
      [name |-> "scan.png", size |-> 6, type |-> "image/png"] }
MaxFileSize == 5
ReceiptTypes == {"image/jpeg", "image/png", "image/jpg", "application/pdf"}

\* handleFileSelect: a file that is too large or of another type raises a
\* toast and changes nothing
handleFileSelect(file) ==
    /\ pc = "page"
    /\ IF file.size > MaxFileSize \/ file.type \notin ReceiptTypes
       THEN UNCHANGED vars
       ELSE /\ selectedFile' = Some(file)
            /\ showOCRModal' = TRUE
            /\ UNCHANGED <<coreVars, payVars, expVars, setupVars, authVars, ocrProcessing,
                           ocrData, previewUrl, extraction>>

\* handleOCRProcess up to its await, from the Process with OCR button
handleOCRProcess ==
    /\ showOCRModal
    /\ ocrData = Undefined
    /\ selectedFile # Undefined
    /\ ~ocrProcessing
    /\ ocrProcessing' = TRUE
    /\ extraction' = extraction \cup selectedFile
    /\ UNCHANGED <<coreVars, payVars, expVars, setupVars, authVars, selectedFile, ocrData,
                   previewUrl, showOCRModal>>

\* the vendors, amounts (50 to 5049) and dates (today or up to 29 days back)
\* extractReceiptData may draw
OcrVendors == { <<"D","e","l","t","a"," ","A","i","r","l","i","n","e","s">> }
OcrAmounts == {50, 5049}
OcrDates(today) == {today - 1}

\* what extractReceiptData resolves to for a file
ExtractedData(file, today) ==
    { [ extracted_data |-> [amount |-> a, date |-> d, vendor |-> v],
        image_url |-> file.name ] :
      a \in OcrAmounts, d \in OcrDates(today), v \in OcrVendors }

\* String(n) for a natural number
RECURSIVE DigitsOf(_)
DigitsOf(n) ==
    IF n < 10 THEN <<Digits[n + 1]>> ELSE Append(DigitsOf(n \div 10), Digits[(n % 10) + 1])

\* the form handleOCRProcess fills in (the month label of the title is one
\* token)
PrefilledForm(data) ==
    [ title |-> data.vendor \o <<" ", "-", " ", ToString(data.date)>>,
      description |-> <<"S","e","r","v","i","c","e"," ","c","h","a","r","g","e",","," ","A","d","d","i","t","i","o","n","a","l"," ","f","e","e","s">>,
      amount |-> DigitsOf(data.amount),
      category |-> categorizeExpense(data.vendor, << >>, data.amount).category,
      expense_date |-> data.date ]

\* handleOCRProcess from its await to its end: extractReceiptData has
\* resolved for the file it was given
OCRResolve(file, result) ==
    /\ file \in extraction
    /\ extraction' = extraction \ {file}
    /\ ocrData' = Some(result.extracted_data)
    /\ previewUrl' = Some(result.image_url)
    /\ expenseForm' = PrefilledForm(result.extracted_data)
    /\ ocrProcessing' = FALSE
    /\ UNCHANGED <<coreVars, payVars, setupVars, authVars, storedExpenses, pageExpenses,
                   showExpenseModal, selectedFile, showOCRModal>>

\* the Re-scan button: setOcrData(null)
Rescan ==
    /\ showOCRModal
    /\ ocrData # Undefined
    /\ ocrData' = Undefined
    /\ UNCHANGED <<coreVars, payVars, expVars, setupVars, authVars, selectedFile,
                   ocrProcessing, previewUrl, showOCRModal, extraction>>

\* the receipt dialog is dismissed: onOpenChange(false)
CloseOCRModal ==
    /\ showOCRModal
    /\ showOCRModal' = FALSE
    /\ UNCHANGED <<coreVars, payVars, expVars, setupVars, authVars, selectedFile,
                   ocrProcessing, ocrData, previewUrl, extraction>>

NextReceipts ==
    \/ loadExpenses
    \/ \E file \in ReceiptFiles : handleFileSelect(file)
    \/ handleOCRProcess
    \/ \E file \in extraction : \E result \in ExtractedData(file, now) : OCRResolve(file, result)
    \/ Rescan
    \/ CloseOCRModal
    \/ \E open \in BOOLEAN : setShowAddExpenseModal(open)
    \/ resetExpenseForm
    \/ handleSaveExpense

SpecReceipts == InitExpenses /\ [][NextReceipts]_vars

(***************************************************************************)
(* C25: cancelling the receipt dialog (resetForm) while an OCR extraction  *)
(* is still in flight discards that extraction: after the cancel, the form *)
(* fields, ocrData and previewUrl stay empty until the user selects a new  *)
(* file, so an expense saved afterwards through the manual form never      *)
(* carries the cancelled receipt's ocr_data, receipt_url or pre-filled     *)
(* values.                                                                 *)
(***************************************************************************)
C25_CancelStep ==
    \* with no file selected there is no extracted data and no preview
    /\ selectedFile' = Undefined => (ocrData' = Undefined /\ previewUrl' = Undefined)
    \* an extraction that resolves with no file selected leaves the form alone
    /\ (selectedFile = Undefined
        /\ \E file \in extraction : \E result \in ExtractedData(file, now) :
               OCRResolve(file, result))
          => expenseForm' = expenseForm
    \* an expense saved with no file selected carries nothing of a receipt
    /\ (selectedFile = Undefined /\ Len(storedExpenses') > Len(storedExpenses))
          => (storedExpenses'[1].ocr_data = Undefined
              /\ storedExpenses'[1].receipt_url = Undefined)

C25_CancelDiscardsExtraction == [][C25_CancelStep]_vars

(***************************************************************************)
(* C28: every expense handleSaveExpense creates has status pending and is  *)
(* inserted at the front of the stored list; the approve and reject        *)
(* actions are offered only for pending expenses and change nothing but    *)
(* the status of the targeted expense, so once an expense is approved or   *)
(* rejected its status never changes again (it can only be deleted).       *)
(***************************************************************************)
\* the ids of the stored expenses before the step
C28_OldIds == { storedExpenses[i].id : i \in 1..Len(storedExpenses) }

C28_StatusStep ==
    \* a new expense is pending, in front of the list as it was
    /\ (\E j \in 1..Len(storedExpenses') : storedExpenses'[j].id \notin C28_OldIds)
          => /\ storedExpenses'[1].id \notin C28_OldIds
             /\ storedExpenses'[1].status = "pending"
             /\ Tail(storedExpenses') = storedExpenses
    \* an expense that stays changes in nothing but its status, and only from
    \* pending to approved or rejected
    /\ \A i \in 1..Len(storedExpenses) : \A j \in 1..Len(storedExpenses') :
          (storedExpenses'[j].id = storedExpenses[i].id
           /\ storedExpenses'[j] # storedExpenses[i])
             => /\ storedExpenses[i].status = "pending"
                /\ storedExpenses'[j].status \in {"approved", "rejected"}
                /\ storedExpenses'[j] =
                     [storedExpenses[i] EXCEPT !.status = storedExpenses'[j].status]
    \* approve and reject change the targeted expense only
    /\ \A id \in ExpenseIds :
          (handleApproveExpense(id) \/ handleRejectExpense(id))
             => /\ Len(storedExpenses') = Len(storedExpenses)
                /\ \A i \in 1..Len(storedExpenses) :
                      storedExpenses[i].id # id => storedExpenses'[i] = storedExpenses[i]

C29_PaidStep ==
    \* mark-paid acts on a processed record and rewrites its status only
    /\ \A id \in PayrollIds :
          handleMarkPaid(id)
             => /\ Len(storedPayroll') = Len(storedPayroll)
                /\ \A i \in 1..Len(storedPayroll) :
                      IF storedPayroll[i].id = id
                      THEN /\ storedPayroll[i].status = "processed"
                           /\ storedPayroll'[i] =
                                [storedPayroll[i] EXCEPT !.status = "paid"]
                      ELSE storedPayroll'[i] = storedPayroll[i]
    \* a draft or paid record that stays keeps its status
    /\ \A i \in 1..Len(storedPayroll) : \A j \in 1..Len(storedPayroll') :
          (storedPayroll'[j].id = storedPayroll[i].id
           /\ storedPayroll[i].status \in {"draft", "paid"})
             => storedPayroll'[j].status = storedPayroll[i].status

C29_DraftAndPaidFinal == [][C29_PaidStep]_vars

\* a processed record has been marked paid while a draft saved before it is
\* still a draft
C29_Witness ==
    /\ Len(storedPayroll) >= 2
    /\ storedPayroll[1].status = "paid"
    /\ storedPayroll[Len(storedPayroll)].status = "draft"


(***************************************************************************)
(* C30: for every expense list, budget list and pendingPayrollCount >= 0   *)
(* the expense component of calculateHealthScore is at least 15 (its floor *)
(* at 0 is never reached, because anomalyRate and pendingRate are each at  *)
(* most 1), hence overall_score >= 1.5 and expense_health >= 3.7.          *)
(***************************************************************************)
\* the numbers of anomalous and of pending expenses of the call
C30_Anomalous == Cardinality({i \in 1..Len(args.expenses) : args.expenses[i].is_anomaly})
C30_Pending ==
    Cardinality({i \in 1..Len(args.expenses) : args.expenses[i].status = "pending"})

\* scores are in tenths; the expense component is compared times n
C30_ExpenseFloor ==
    pc = "done" =>
        LET n == Max(Len(args.expenses), 1)
        IN  /\ C30_Anomalous <= n
            /\ C30_Pending <= n
            /\ 40 * n - 15 * C30_Anomalous - 10 * C30_Pending > 0
            /\ ExpenseScoreN(C30_Anomalous, C30_Pending, n) >= 15 * n
            /\ ret.overall_score >= 15
            /\ ret.expense_health >= 37

\* every expense is an anomaly and pending, and the other two components are 0
C30_Witness ==
    /\ pc = "done"
    /\ Len(args.expenses) >= 2
    /\ C30_Anomalous = Len(args.expenses)
    /\ C30_Pending = Len(args.expenses)
    /\ args.pendingPayroll > 6
    /\ ret.budget_adherence = 0
    /\ ret.overall_score = 15

====
